---- MODULE Spec2Model ----
(***************************************************************************)
(* A model of the ext2 engine of simple-os (src/src/ext/inner.rs and       *)
(* src/src/ext/inner/syscall.rs) and of the handles and path methods on    *)
(* top of it (src/src/ext/mod.rs).                                         *)
(*                                                                         *)
(* The device is a byte array.  It is kept sparse: a function from the     *)
(* addresses that hold a non-zero byte to that byte; every other address   *)
(* of the device reads as 0.  Fixed-layout records (inode, group           *)
(* descriptor, directory entry header) are kept the same way, as functions *)
(* from the offsets of their non-zero bytes, so that read_struct and       *)
(* write_struct move bytes verbatim, as the code does.                     *)
(*                                                                         *)
(* Every routine of the engine is an operator from an engine state         *)
(*   st = [disk, disk_size, superblock, fb, fi, block_size,                *)
(*         nbr_block_grp, cache, allocd, freed, build]                     *)
(* (disk, disk_size: the bytes and the length of the device; superblock:   *)
(* the record read by new; fb, fi: the free counters of the in-memory      *)
(* superblock; allocd, freed: history variables, the blocks alloc_block    *)
(* returned and free_block released during the operation in progress;      *)
(* build: what a read_struct of a small value yields) to a result          *)
(*   [st, tag, val]   tag \in {"ok", "err", "panic", "hang"}               *)
(* "err" carries the Errno in val; "panic" is a failed assert / unwrap /   *)
(* expect, "hang" an iteration that never ends.                            *)
(***************************************************************************)
EXTENDS Integers, Sequences, FiniteSets, TLC

(***************************************************************************)
(* Bounds of the model                                                     *)
(***************************************************************************)
\* number of engine operations in one behaviour
MaxOps == 2

(***************************************************************************)
(* Geometry of the volume (fields of the superblock read by                *)
(* Ext2Filesystem::new)                                                    *)
(***************************************************************************)
BlockSize == 1024
BlockShift == 10
InodesPerGrp == 16
BlocksPerGrp == 16
NbrBlockGrp == 4
SizeInode == 128
\* the device holds blocks 0 .. 64
DiskSize == 66560
SuperblockAddr == 1024

\* size_of::<Block>() : a block number is a u32
PtrSize == 4
\* block numbers held by one block
PtrsPerBlock == BlockSize \div PtrSize
\* size_of::<Inode>() : the #[repr(C)] record, 0 .. 119
InodeStructSize == 120
\* size_of::<BlockGroupDescriptor>()
DescSize == 32
\* size_of::<DirectoryEntryHeader>()
DirHeaderSize == 8
FILENAME_MAX == 255
\* size_of::<DirectoryEntry>() : header + [i8; FILENAME_MAX + 1]
DirEntryStructSize == DirHeaderSize + FILENAME_MAX + 1
FAST_SYMLINK_SIZE_MAX == 60
NB_LAYERS == 3

U16Mod == 65536
\* 2^k
RECURSIVE Pow2(_)
Pow2(k) == IF k = 0 THEN 1 ELSE 2 * Pow2(k - 1)

\* TLC evaluates in 32 bits and stops on an overflow.  A u32 is the number
\* itself (one of 2^31 or more is read as FarU32, see U32).  A device
\* address is a u64, and the address of a block whose number was read from
\* bytes that are no block number goes past 2^31 (to_addr is a u64
\* product) : an address a is the pair <<a \div Wide, a % Wide>>.
Wide == Pow2(30)

\* the address a, of a below 2^31
Addr(a) == <<a \div Wide, a % Wide>>

\* addr + k, of k below Wide
Plus(addr, k) == <<addr[1] + ((addr[2] + k) \div Wide), (addr[2] + k) % Wide>>

\* With([x \in {e} |-> b]) is b with x bound to the value of e (a `let` of the source)
With(f) == f[CHOOSE x \in DOMAIN f : TRUE]

(***************************************************************************)
(* Sparse byte arrays                                                      *)
(***************************************************************************)
Empty == [a \in {} |-> 0]

Pow256(k) == IF k = 0 THEN 1 ELSE IF k = 1 THEN 256 ELSE IF k = 2 THEN 65536 ELSE 16777216

ByteOf(v, k) == (v \div Pow256(k)) % 256

Get(m, a) == IF a \in DOMAIN m THEN m[a] ELSE 0

\* little-endian fields
U16(m, a) == Get(m, a) + 256 * Get(m, a + 1)

\* a u32 of 2^31 or more, which TLC's integers do not hold, reads as FarU32 :
\* a block number or an inode number that large lies, like FarU32, beyond
\* every volume of the model
FarU32 == Wide + (Wide - 1)

U32(m, a) ==
    IF Get(m, a + 3) >= 128 THEN FarU32
    ELSE Get(m, a) + 256 * Get(m, a + 1) + 65536 * Get(m, a + 2) + 16777216 * Get(m, a + 3)

\* the w bytes of v, little-endian, at offset 0 (non-zero bytes only)
LE(v, w) == [k \in {j \in 0..(w - 1) : ByteOf(v, j) # 0} |-> ByteOf(v, k)]

\* the n bytes of m from base, re-based at 0
Slice(m, base, n) ==
    With([dom \in {{x \in DOMAIN m : x >= base /\ x < base + n}} |->
        [o \in {x - base : x \in dom} |-> m[o + base]]])

\* m with its n bytes from base replaced by the first n bytes of s
Splice(m, base, n, s) ==
    With([keep \in {{x \in DOMAIN m : x < base \/ x >= base + n}} |->
        With([new \in {{base + o : o \in {p \in DOMAIN s : p < n}}} |->
        [a \in keep \cup new |-> IF a \in new THEN s[a - base] ELSE m[a]]])])

SetU16(m, a, v) == Splice(m, a, 2, LE(v % U16Mod, 2))

SetU32(m, a, v) == Splice(m, a, 4, LE(v, 4))

\* a byte sequence as a sparse array
OfSeq(s) == [o \in {i - 1 : i \in {j \in 1..Len(s) : s[j] # 0}} |-> s[o + 1]]

\* the n bytes of m from base as a sequence
ToSeq(m, base, n) == [i \in 1..n |-> Get(m, base + i - 1)]

Min(a, b) == IF a < b THEN a ELSE b

(***************************************************************************)
(* Results                                                                 *)
(***************************************************************************)
Ok(st, v) == [st |-> st, tag |-> "ok", val |-> v]

Err(st, e) == [st |-> st, tag |-> "err", val |-> e]

Panic(st, why) == [st |-> st, tag |-> "panic", val |-> why]

Hang(st) == [st |-> st, tag |-> "hang", val |-> "iteration never ends"]

(***************************************************************************)
(* Block device port (Disk<T>, src/src/ext/inner/disk.rs).  The device     *)
(* behind the RWS trait is a random-access array of st.disk_size bytes,    *)
(* st.disk : a transfer stops at the end of the device and reports the     *)
(* bytes moved.                                                            *)
(***************************************************************************)
InRange(st, addr, n) ==
    IF addr[1] # 0 \/ addr[2] >= st.disk_size THEN 0 ELSE Min(n, st.disk_size - addr[2])

\* Disk::write_buffer : the new device contents; InRange is the count returned
write_buffer(st, addr, n, s) == Splice(st.disk, addr[2], InRange(st, addr, n), s)

\* Disk::read_buffer : the bytes read (the rest of the buffer is untouched)
read_buffer(st, addr, n) == Slice(st.disk, addr[2], InRange(st, addr, n))

\* Disk::write_struct
write_struct(st, addr, n, s) == write_buffer(st, addr, n, s)

\* Disk::read_struct : a short read is Errno::OutOfSpace
read_struct_ok(st, addr, n) == InRange(st, addr, n) = n

\* Disk::read_struct reads the bytes through a *mut u8 made from the pointer
\* of the immutable binding `t` and returns t.assume_init() : writing through
\* that pointer is undefined behaviour, and what the value holds depends on
\* the build (the field build of the engine) :
\*   "read" : the value holds the bytes read from the device;
\*   "zero", "one" : the compiler takes t as never written; a value that
\*            fits a register is indeterminate whatever the device holds :
\*            a Block reads as 0, the u8 of a bitmap as 0 ("zero") or as
\*            1 ("one"), the two outcomes of the test of its bit 0.
Builds == {"read", "zero", "one"}

Indeterminate(build, n) == IF build = "one" /\ n = 1 THEN LE(1, 1) ELSE Empty

read_struct(st, addr, n) ==
    IF st.build # "read" /\ n <= PtrSize THEN Indeterminate(st.build, n)
    ELSE Slice(st.disk, addr[2], n)

(***************************************************************************)
(* Bitmap helpers (inner.rs, get_bit / set_bit)                            *)
(***************************************************************************)
\* val & (1 << idx)
AndBit(val, idx) == ((val \div Pow2(idx)) % 2) * Pow2(idx)

\* pub fn get_bit(val: u8, idx: u8) -> bool { val & (1 << idx) == 1 }
get_bit(val, idx) == AndBit(val, idx) = 1

\* pub fn set_bit(val: &mut u8, idx: u8, value: bool)
set_bit(val, idx, value) ==
    IF ~value THEN val - AndBit(val, idx)
    ELSE val - AndBit(val, idx) + Pow2(idx)

(***************************************************************************)
(* Addresses                                                               *)
(***************************************************************************)
\* inner.rs, to_addr : block_size as u64 * block_number as u64; block_size
\* is a power of two (the assert of new), so Wide is a multiple of it
to_addr(st, block_number) ==
    <<block_number \div (Wide \div st.block_size),
      (block_number % (Wide \div st.block_size)) * st.block_size>>

to_block_addr(st, size) == size \div st.block_size

to_block(st, size) == (size \div st.block_size) + (IF size % st.block_size # 0 THEN 1 ELSE 0)

\* block_size / size_of::<Block>()
blocknumber_per_block(st) == st.block_size \div PtrSize

\* The formulas that read the device where the geometry of the volume of
\* BlockSize-byte blocks puts things take the address of a block as a
\* number.  A block past FarBlock, whose address is more than TLC
\* evaluates, lies far beyond the device like FarBlock itself, and is read
\* there.
FarBlock == (2147483647 \div BlockSize) - 8

BlockAddr(block_number) == BlockSize * Min(block_number, FarBlock)

\* tools::align_next : the next multiple of a at or after x
align_next(x, a) == ((x + a - 1) \div a) * a

u32_align_next(x, a) == align_next(x, a)

(***************************************************************************)
(* Superblock and group descriptors                                        *)
(***************************************************************************)
SuperBlockStructSize == 1024

\* the superblock record of the volume with the given free counters
SuperBlockImage(fb, fi) ==
    LE(NbrBlockGrp * InodesPerGrp, 4)
    @@ Splice(Empty, 4, 4, LE(NbrBlockGrp * BlocksPerGrp, 4))
    @@ Splice(Empty, 12, 4, LE(fb, 4))
    @@ Splice(Empty, 16, 4, LE(fi, 4))
    @@ Splice(Empty, 20, 4, LE(1, 4))
    @@ Splice(Empty, 32, 4, LE(BlocksPerGrp, 4))
    @@ Splice(Empty, 36, 4, LE(BlocksPerGrp, 4))
    @@ Splice(Empty, 40, 4, LE(InodesPerGrp, 4))
    @@ Splice(Empty, 56, 2, LE(61267, 2))
    @@ Splice(Empty, 58, 2, LE(1, 2))
    @@ Splice(Empty, 76, 4, LE(1, 4))
    @@ Splice(Empty, 84, 4, LE(11, 4))
    @@ Splice(Empty, 88, 2, LE(SizeInode, 2))

\* the in-memory superblock of the engine : the record read by new, with
\* the two free counters as they stand
superblock_of(st) == SetU32(SetU32(st.superblock, 12, st.fb), 16, st.fi)

\* SuperBlock::get_block_per_block_grp
get_block_per_block_grp(st) == U32(st.superblock, 32)

\* superblock.inodes_per_block_grp
inodes_per_block_grp(st) == U32(st.superblock, 40)

\* SuperBlock::get_size_inode : the size of the inode record
get_size_inode(st) == U16(st.superblock, 88)

\* disk.write_struct(self.superblock_addr, &self.superblock)
write_superblock(st) ==
    [st EXCEPT !.disk = write_struct(st, Addr(SuperblockAddr), SuperBlockStructSize, superblock_of(st))]

\* fields of a BlockGroupDescriptor
block_usage_bitmap(d) == U32(d, 0)

inode_usage_bitmap(d) == U32(d, 4)

inode_table(d) == U32(d, 8)

nbr_free_blocks(d) == U16(d, 12)

nbr_free_inodes(d) == U16(d, 14)

\* the address of the descriptor of group n in the table of the volume of
\* BlockSize-byte blocks
DescAddr(n) == BlockAddr(IF BlockSize = 1024 THEN 2 ELSE 1) + n * DescSize

\* inner.rs, block_grp_descriptor_addr : val = the address
block_grp_descriptor_addr(st, n) ==
    IF ~(n <= st.nbr_block_grp) THEN Panic(st, "assert n <= nbr_block_grp")
    ELSE Ok(st, Plus(to_addr(st, IF st.block_size = 1024 THEN 2 ELSE 1), n * DescSize))

\* inner.rs, get_block_grp_descriptor : val = [d, addr]
get_block_grp_descriptor(st, n) ==
    With([ra \in {block_grp_descriptor_addr(st, n)} |->
        IF ra.tag # "ok" THEN ra
        ELSE IF ~read_struct_ok(st, ra.val, DescSize) THEN Err(st, "OutOfSpace")
        ELSE Ok(st, [d |-> read_struct(st, ra.val, DescSize), addr |-> ra.val])])

(***************************************************************************)
(* Inode record                                                            *)
(***************************************************************************)
type_and_perm(i) == U16(i, 0)

low_size(i) == U32(i, 4)

nbr_hard_links(i) == U16(i, 26)

nbr_disk_sectors(i) == U32(i, 28)

direct_block_pointers(i, k) == U32(i, 40 + 4 * k)

singly_indirect_block_pointers(i) == U32(i, 88)

doubly_indirect_block_pointers(i) == U32(i, 92)

triply_indirect_block_pointers(i) == U32(i, 96)

upper_size(i) == U32(i, 108)

\* TypePerm::extract_type : FileType::from(self.0 & 0xf000)
extract_type(tp) ==
    With([v \in {(tp \div 4096) * 4096} |->
        IF v \in {4096, 8192, 16384, 24576, 32768, 40960, 49152} THEN v ELSE 61440])

FT_Directory == 16384
FT_RegularFile == 32768
FT_Symlink == 40960

is_a_directory(i) == extract_type(type_and_perm(i)) = FT_Directory

is_a_regular_file(i) == extract_type(type_and_perm(i)) = FT_RegularFile

is_symlink(i) == extract_type(type_and_perm(i)) = FT_Symlink

\* Inode::get_size
get_size(i) ==
    IF is_a_directory(i) THEN low_size(i)
    ELSE low_size(i) + upper_size(i) * 65536 * 65536

\* Inode::new
Inode_new(tp) == SetU16(SetU16(Empty, 0, tp), 26, 1)

\* inner.rs, get_inode : val = [inode, addr]
get_inode(st, inode) ==
    IF ~(inode >= 1) THEN Panic(st, "assert inode >= 1")
    ELSE IF inodes_per_block_grp(st) = 0 THEN Panic(st, "attempt to divide by zero")
    ELSE
    With([block_grp \in {(inode - 1) \div inodes_per_block_grp(st)} |->
        With([index \in {(inode - 1) % inodes_per_block_grp(st)} |->
        With([inode_offset \in {index * get_size_inode(st)} |->
        With([rd \in {get_block_grp_descriptor(st, block_grp)} |->
        IF rd.tag # "ok" THEN rd
        ELSE
        With([bitmap_addr \in {to_addr(st, inode_usage_bitmap(rd.val.d))} |->
            With([baddr \in {Plus(bitmap_addr, index \div 8)} |->
            IF ~read_struct_ok(st, baddr, 1) THEN Err(st, "OutOfSpace")
            ELSE IF ~get_bit(Get(read_struct(st, baddr, 1), 0), index % 8) THEN Err(st, "NoEntry")
            ELSE
            With([inode_addr \in {Plus(to_addr(st, inode_table(rd.val.d)), inode_offset)} |->
                IF ~read_struct_ok(st, inode_addr, InodeStructSize) THEN Err(st, "OutOfSpace")
                ELSE Ok(st, [inode |-> read_struct(st, inode_addr, InodeStructSize),
                             addr  |-> inode_addr])])])])])])])])

(***************************************************************************)
(* Allocator (inner.rs, alloc_inode_on_grp .. free_block)                  *)
(***************************************************************************)
\* an Option that is None
None(st) == Err(st, "None")

\* the bitmap is read into a [u8; 1024], a new block is cleared from a [0; 1024]
BitmapBufSize == 1024
ZeroBufSize == 1024

SetMin(S) == CHOOSE x \in S : \A y \in S : x <= y

\* the first i of 0 .. count-1 whose bit get_bit reports clear
first_clear(bitmap, count) ==
    With([free \in {{i \in 0..(count - 1) : ~get_bit(Get(bitmap, i \div 8), i % 8)}} |->
        IF free = {} THEN -1 ELSE SetMin(free)])

\* inner.rs, alloc_inode_on_grp : val = the inode number
alloc_inode_on_grp(st, n) ==
    With([rd \in {get_block_grp_descriptor(st, n)} |->
        IF rd.tag = "panic" THEN rd
        ELSE IF rd.tag # "ok" THEN None(st)
        ELSE IF nbr_free_inodes(rd.val.d) = 0 THEN None(st)
        ELSE
        With([bitmap_addr \in {to_addr(st, inode_usage_bitmap(rd.val.d))} |->
            IF ~read_struct_ok(st, bitmap_addr, BitmapBufSize) THEN None(st)
            ELSE
            With([bitmap \in {read_struct(st, bitmap_addr, BitmapBufSize)} |->
                With([i \in {first_clear(bitmap, inodes_per_block_grp(st))} |->
                IF i < 0 THEN None(st)
                ELSE
                With([byte \in {set_bit(Get(bitmap, i \div 8), i % 8, TRUE)} |->
                    With([st1 \in {[st EXCEPT !.disk = write_struct(st, Plus(bitmap_addr, i \div 8), 1, LE(byte, 1))]} |->
                    With([d1 \in {SetU16(rd.val.d, 14, nbr_free_inodes(rd.val.d) - 1)} |->
                    IF st1.fi = 0 THEN Panic(st1, "attempt to subtract with overflow")
                    ELSE
                    With([st2 \in {write_superblock([st1 EXCEPT !.fi = @ - 1])} |->
                        With([st3 \in {[st2 EXCEPT !.disk = write_struct(st2, rd.val.addr, DescSize, d1)]} |->
                        Ok(st3, inodes_per_block_grp(st) * n + i + 1)])])])])])])])])])

RECURSIVE alloc_inode_from(_, _)
alloc_inode_from(st, n) ==
    IF n >= st.nbr_block_grp THEN None(st)
    ELSE With([r \in {alloc_inode_on_grp(st, n)} |->
             IF r.tag \in {"ok", "panic"} THEN r ELSE alloc_inode_from(st, n + 1)])

\* inner.rs, alloc_inode
alloc_inode(st) == alloc_inode_from(st, 0)

\* inner.rs, alloc_block_on_grp : val = the block number
alloc_block_on_grp(st, n) ==
    With([rd \in {get_block_grp_descriptor(st, n)} |->
        IF rd.tag = "panic" THEN rd
        ELSE IF rd.tag # "ok" THEN None(st)
        ELSE IF nbr_free_blocks(rd.val.d) = 0 THEN None(st)
        ELSE
        With([bitmap_addr \in {to_addr(st, block_usage_bitmap(rd.val.d))} |->
            IF ~read_struct_ok(st, bitmap_addr, BitmapBufSize) THEN None(st)
            ELSE
            With([bitmap \in {read_struct(st, bitmap_addr, BitmapBufSize)} |->
                With([i \in {first_clear(bitmap, get_block_per_block_grp(st))} |->
                IF i < 0 THEN None(st)
                ELSE
                With([byte \in {set_bit(Get(bitmap, i \div 8), i % 8, TRUE)} |->
                    With([st1 \in {[st EXCEPT !.disk = write_struct(st, Plus(bitmap_addr, i \div 8), 1, LE(byte, 1))]} |->
                    With([d1 \in {SetU16(rd.val.d, 12, nbr_free_blocks(rd.val.d) - 1)} |->
                    With([st2 \in {[st1 EXCEPT !.disk = write_struct(st1, rd.val.addr, DescSize, d1)]} |->
                    IF st2.fb = 0 THEN Panic(st2, "attempt to subtract with overflow")
                    ELSE Ok(write_superblock([st2 EXCEPT !.fb = @ - 1]),
                            get_block_per_block_grp(st) * n + (i + 1))])])])])])])])])

\* the scan of alloc_block stopping at the group it starts with
alloc_block_only(st, n) ==
    IF n >= st.nbr_block_grp THEN None(st)
    ELSE With([r \in {alloc_block_on_grp(st, n)} |->
             IF r.tag = "panic" THEN r
             ELSE IF r.tag = "ok"
                  THEN Ok([r.st EXCEPT !.disk = write_buffer(r.st, to_addr(st, r.val), ZeroBufSize, Empty),
                                       !.allocd = Append(@, r.val)],
                          r.val)
             ELSE None(st)])

RECURSIVE alloc_block_from(_, _)
alloc_block_from(st, n) ==
    IF n >= st.nbr_block_grp THEN None(st)
    ELSE With([r \in {alloc_block_on_grp(st, n)} |->
             IF r.tag = "panic" THEN r
             ELSE IF r.tag = "ok"
                  THEN Ok([r.st EXCEPT !.disk = write_buffer(r.st, to_addr(st, r.val), ZeroBufSize, Empty),
                                       !.allocd = Append(@, r.val)],
                          r.val)
             ELSE alloc_block_from(st, n + 1)])

\* inner.rs, alloc_block
alloc_block(st) == alloc_block_from(st, 0)

\* inner.rs, free_block
free_block(st, block_nbr) ==
    IF block_nbr = 0 THEN Panic(st, "attempt to subtract with overflow")
    ELSE IF get_block_per_block_grp(st) = 0 THEN Panic(st, "attempt to divide by zero")
    ELSE
    With([block_grp \in {(block_nbr - 1) \div get_block_per_block_grp(st)} |->
        With([index \in {(block_nbr - 1) % get_block_per_block_grp(st)} |->
        With([rd \in {get_block_grp_descriptor(st, block_grp)} |->
        IF rd.tag # "ok" THEN rd
        ELSE
        With([baddr \in {Plus(to_addr(st, block_usage_bitmap(rd.val.d)), index \div 8)} |->
            IF ~read_struct_ok(st, baddr, 1) THEN Err(st, "OutOfSpace")
            ELSE
            With([bitmap \in {Get(read_struct(st, baddr, 1), 0)} |->
                IF ~get_bit(bitmap, index % 8) THEN Panic(st, "assert get_bit (free_block)")
                ELSE
                With([byte \in {set_bit(bitmap, index % 8, FALSE)} |->
                    With([st1 \in {[st EXCEPT !.disk = write_struct(st, baddr, 1, LE(byte, 1))]} |->
                    IF nbr_free_blocks(rd.val.d) = U16Mod - 1
                    THEN Panic(st1, "attempt to add with overflow")
                    ELSE
                    With([d1 \in {SetU16(rd.val.d, 12, nbr_free_blocks(rd.val.d) + 1)} |->
                        With([st2 \in {[st1 EXCEPT !.disk = write_struct(st1, rd.val.addr, DescSize, d1)]} |->
                        Ok(write_superblock([st2 EXCEPT !.fb = @ + 1, !.freed = Append(@, block_nbr)]), 0)])])])])])])])])])

(***************************************************************************)
(* Pointers (inner.rs, alloc_pointer / pointer / free_pointer)             *)
(***************************************************************************)
\* tools::err_if_zero
err_if_zero(st, block) == IF block = 0 THEN Err(st, "BadBlock") ELSE Ok(st, block)

\* inner.rs, alloc_pointer
alloc_pointer(st, pointer_addr) ==
    IF ~read_struct_ok(st, pointer_addr, PtrSize) THEN Err(st, "OutOfSpace")
    ELSE
    With([pointer \in {U32(read_struct(st, pointer_addr, PtrSize), 0)} |->
        IF pointer # 0 THEN Ok(st, pointer)
        ELSE
        With([ra \in {alloc_block(st)} |->
            IF ra.tag = "panic" THEN ra
            ELSE IF ra.tag # "ok" THEN Err(st, "OutOfSpace")
            ELSE err_if_zero([ra.st EXCEPT !.disk = write_struct(ra.st, pointer_addr, PtrSize, LE(ra.val, 4))],
                             ra.val)])])

\* inner.rs, pointer
pointer(st, pointer_addr) ==
    IF ~read_struct_ok(st, pointer_addr, PtrSize) THEN Err(st, "OutOfSpace")
    ELSE err_if_zero(st, U32(read_struct(st, pointer_addr, PtrSize), 0))

\* inner.rs, free_pointer
free_pointer(st, pointer_addr) ==
    IF ~read_struct_ok(st, pointer_addr, PtrSize) THEN Err(st, "OutOfSpace")
    ELSE
    With([p \in {U32(read_struct(st, pointer_addr, PtrSize), 0)} |->
        IF p = 0 THEN Panic(st, "free pointer null")
        ELSE free_block([st EXCEPT !.disk = write_struct(st, pointer_addr, PtrSize, Empty)], p)])

(***************************************************************************)
(* Block map of an inode (inner.rs, inode_free_block .. inode_data_xxx)    *)
(* The caller's in-memory inode is passed by reference in the code, so     *)
(* these results carry it back in the field ino whatever the outcome.      *)
(***************************************************************************)
WithIno(r, ino) == [st |-> r.st, tag |-> r.tag, val |-> r.val, ino |-> ino]

\* byte offsets of the block pointers inside the inode record
DirectOff(k) == 40 + PtrSize * k
SinglyOff == 88
DoublyOff == 92
TriplyOff == 96
NbrDirect == 12

OffsetSingly == NbrDirect
\* the first block of each range, with per_block block numbers in a block
OffsetDoubly(per_block) == OffsetSingly + per_block
OffsetTriply(per_block) == OffsetDoubly(per_block) + per_block * per_block
\* the end of the block map with the triple range one block short
OffsetEndShort(per_block) == OffsetTriply(per_block) + per_block * per_block * per_block - 1
OffsetEnd(per_block) == OffsetTriply(per_block) + per_block * per_block * per_block

\* free the block a root pointer of the inode names, clear the pointer and
\* write the inode back (the tail of each range of inode_free_block)
release_root(st, inode, inode_addr, field) ==
    With([p \in {U32(inode, field)} |->
        IF p = 0 THEN WithIno(Err(st, "BadBlock"), inode)
        ELSE
        With([r \in {free_block(st, p)} |->
            IF r.tag # "ok" THEN WithIno(r, inode)
            ELSE
            With([ino1 \in {SetU32(inode, field, 0)} |->
                WithIno(Ok([r.st EXCEPT !.disk = write_struct(r.st, inode_addr, InodeStructSize, ino1)], 0),
                        ino1)])])])

\* inner.rs, inode_free_block
inode_free_block(st, inode, inode_addr, block_off) ==
    IF block_off < OffsetSingly THEN release_root(st, inode, inode_addr, DirectOff(block_off))
    ELSE IF block_off < OffsetDoubly(blocknumber_per_block(st)) THEN
        With([off \in {block_off - OffsetSingly} |->
            With([p \in {U32(inode, SinglyOff)} |->
            IF p = 0 THEN WithIno(Err(st, "BadBlock"), inode)
            ELSE
            With([r1 \in {free_pointer(st, Plus(to_addr(st, p), off * PtrSize))} |->
                IF r1.tag # "ok" THEN WithIno(r1, inode)
                ELSE IF block_off = OffsetSingly
                     THEN release_root(r1.st, inode, inode_addr, SinglyOff)
                ELSE WithIno(r1, inode)])])])
    ELSE IF block_off < OffsetTriply(blocknumber_per_block(st)) THEN
        With([d \in {U32(inode, DoublyOff)} |->
            With([off_doubly \in {(block_off - OffsetDoubly(blocknumber_per_block(st))) \div blocknumber_per_block(st)} |->
            With([off \in {(block_off - OffsetDoubly(blocknumber_per_block(st))) % blocknumber_per_block(st)} |->
            With([app \in {Plus(to_addr(st, d), off_doubly * PtrSize)} |->
            IF d = 0 THEN WithIno(Err(st, "BadBlock"), inode)
            ELSE
            With([rp \in {pointer(st, app)} |->
                IF rp.tag # "ok" THEN WithIno(rp, inode)
                ELSE
                With([r1 \in {free_pointer(st, Plus(to_addr(st, rp.val), off * PtrSize))} |->
                    IF r1.tag # "ok" THEN WithIno(r1, inode)
                    ELSE
                    With([r2 \in {IF off = 0 THEN free_pointer(r1.st, app) ELSE r1} |->
                        IF r2.tag # "ok" THEN WithIno(r2, inode)
                        ELSE IF block_off = OffsetDoubly(blocknumber_per_block(st))
                             THEN release_root(r2.st, inode, inode_addr, DoublyOff)
                        ELSE WithIno(r2, inode)])])])])])])])
    ELSE IF block_off < OffsetEnd(blocknumber_per_block(st)) THEN
        With([t \in {U32(inode, TriplyOff)} |->
            With([rel \in {block_off - OffsetTriply(blocknumber_per_block(st))} |->
            With([off_triply \in {rel \div (blocknumber_per_block(st) * blocknumber_per_block(st))} |->
            With([off_doubly \in {(rel % (blocknumber_per_block(st) * blocknumber_per_block(st))) \div blocknumber_per_block(st)} |->
            With([off \in {(rel % (blocknumber_per_block(st) * blocknumber_per_block(st))) % blocknumber_per_block(st)} |->
            With([appp \in {Plus(to_addr(st, t), off_triply * PtrSize)} |->
            IF t = 0 THEN WithIno(Err(st, "BadBlock"), inode)
            ELSE
            With([rppp \in {pointer(st, appp)} |->
                IF rppp.tag # "ok" THEN WithIno(rppp, inode)
                ELSE
                With([app \in {Plus(to_addr(st, rppp.val), off_doubly * PtrSize)} |->
                    With([rpp \in {pointer(st, app)} |->
                    IF rpp.tag # "ok" THEN WithIno(rpp, inode)
                    ELSE
                    With([r1 \in {free_pointer(st, Plus(to_addr(st, rpp.val), off * PtrSize))} |->
                        IF r1.tag # "ok" THEN WithIno(r1, inode)
                        ELSE
                        With([r2 \in {IF off = 0 THEN free_pointer(r1.st, app) ELSE r1} |->
                            IF r2.tag # "ok" THEN WithIno(r2, inode)
                            ELSE
                            With([r3 \in {IF off_doubly = 0 THEN free_pointer(r2.st, appp) ELSE r2} |->
                                IF r3.tag # "ok" THEN WithIno(r3, inode)
                                ELSE IF block_off = OffsetTriply(blocknumber_per_block(st))
                                     THEN release_root(r3.st, inode, inode_addr, TriplyOff)
                                ELSE WithIno(r3, inode)])])])])])])])])])])])])
    ELSE WithIno(Err(st, "FileTooBig"), inode)

\* allocate the block of a root pointer of the inode when it is null and
\* write the inode back : val = the block the pointer names
root_alloc(st, inode, inode_addr, field) ==
    IF U32(inode, field) # 0 THEN WithIno(Ok(st, U32(inode, field)), inode)
    ELSE
    With([ra \in {alloc_block(st)} |->
        IF ra.tag = "panic" THEN WithIno(ra, inode)
        ELSE IF ra.tag # "ok" THEN WithIno(Err(st, "OutOfSpace"), inode)
        ELSE
        With([ino1 \in {SetU32(inode, field, ra.val)} |->
            WithIno(Ok([ra.st EXCEPT !.disk = write_struct(ra.st, inode_addr, InodeStructSize, ino1)],
                       ra.val), ino1)])])

\* the tail of an indirect range : follow (allocating) one pointer level
next_level(r, off) ==
    IF r.tag # "ok" THEN r
    ELSE WithIno(alloc_pointer(r.st, Plus(to_addr(r.st, r.val), off * PtrSize)), r.ino)

\* turn a resolved block into the address of the byte at offset
data_addr(r, offset) ==
    IF r.tag # "ok" THEN r
    ELSE [r EXCEPT !.val = Plus(to_addr(r.st, r.val), offset % r.st.block_size)]

\* inner.rs, inode_data_may_alloc, for the byte offset of block block_off
\* that is offset modulo the block size : val = the disk address of the byte
inode_data_may_alloc_blk(st, inode, inode_addr, blk, offset) ==
    With([block_off \in {blk} |->
        IF block_off < OffsetSingly
        THEN data_addr(root_alloc(st, inode, inode_addr, DirectOff(block_off)), offset)
        ELSE IF block_off < OffsetDoubly(blocknumber_per_block(st))
        THEN data_addr(next_level(root_alloc(st, inode, inode_addr, SinglyOff),
                                  block_off - OffsetSingly), offset)
        ELSE IF block_off < OffsetTriply(blocknumber_per_block(st))
        THEN With([rel \in {block_off - OffsetDoubly(blocknumber_per_block(st))} |->
                 data_addr(next_level(next_level(root_alloc(st, inode, inode_addr, DoublyOff),
                                                 rel \div blocknumber_per_block(st)),
                                      rel % blocknumber_per_block(st)), offset)])
        ELSE IF block_off < OffsetEnd(blocknumber_per_block(st))
        THEN With([rel \in {block_off - OffsetTriply(blocknumber_per_block(st))} |->
                 data_addr(next_level(next_level(next_level(
                               root_alloc(st, inode, inode_addr, TriplyOff),
                               rel \div (blocknumber_per_block(st) * blocknumber_per_block(st))),
                               (rel % (blocknumber_per_block(st) * blocknumber_per_block(st))) \div blocknumber_per_block(st)),
                               (rel % (blocknumber_per_block(st) * blocknumber_per_block(st))) % blocknumber_per_block(st)), offset)])
        ELSE WithIno(Err(st, "FileTooBig"), inode)])

\* inner.rs, inode_data_may_alloc : val = the disk address of byte offset
inode_data_may_alloc(st, inode, inode_addr, offset) ==
    inode_data_may_alloc_blk(st, inode, inode_addr, offset \div st.block_size, offset)

\* inner.rs, inode_data_alloc
inode_data_alloc(st, inode, inode_addr, offset) == inode_data_may_alloc(st, inode, inode_addr, offset)

\* follow one pointer level without allocating
read_level(r, off) ==
    IF r.tag # "ok" THEN r ELSE pointer(r.st, Plus(to_addr(r.st, r.val), off * PtrSize))

\* inner.rs, inode_data_xxx : val = the disk address of byte offset
inode_data_xxx(st, inode, offset) ==
    With([block_off \in {offset \div st.block_size} |->
        IF block_off < OffsetSingly
        THEN data_addr(err_if_zero(st, U32(inode, DirectOff(block_off))), offset)
        ELSE IF block_off < OffsetDoubly(blocknumber_per_block(st))
        THEN data_addr(read_level(err_if_zero(st, U32(inode, SinglyOff)),
                                  block_off - OffsetSingly), offset)
        ELSE IF block_off < OffsetTriply(blocknumber_per_block(st))
        THEN With([rel \in {block_off - OffsetDoubly(blocknumber_per_block(st))} |->
                 data_addr(read_level(read_level(err_if_zero(st, U32(inode, DoublyOff)),
                                                 rel \div blocknumber_per_block(st)),
                                      rel % blocknumber_per_block(st)), offset)])
        ELSE IF block_off < OffsetEnd(blocknumber_per_block(st))
        THEN With([rel \in {block_off - OffsetTriply(blocknumber_per_block(st))} |->
                 data_addr(read_level(read_level(read_level(
                               err_if_zero(st, U32(inode, TriplyOff)),
                               rel \div (blocknumber_per_block(st) * blocknumber_per_block(st))),
                               (rel % (blocknumber_per_block(st) * blocknumber_per_block(st))) \div blocknumber_per_block(st)),
                               (rel % (blocknumber_per_block(st) * blocknumber_per_block(st))) % blocknumber_per_block(st)), offset)])
        ELSE Err(st, "FileTooBig")])

(***************************************************************************)
(* Pointer cache (inner.rs, Cache / CacheEntry / get_pointer / inode_data) *)
(* One entry per level : idx is the address of the cached pointer block    *)
(* (NoIdx for None), data its bytes.                                       *)
(***************************************************************************)
NoIdx == <<>>

Levels == 0..(NB_LAYERS - 1)

\* Cache::new
Cache_new == [l \in Levels |-> [idx |-> NoIdx, data |-> Empty]]

\* an invalidate that leaves the cache as it is
Cache_keep(cache) == cache

\* Cache::invalidate
Cache_invalidate(cache) == [l \in Levels |-> [cache[l] EXCEPT !.idx = NoIdx]]

\* inner.rs, get_pointer : val = the pointer at index off of the block at addr
get_pointer(st, addr, off, level) ==
    IF st.cache[level].idx = addr
    THEN Ok(st, U32(st.cache[level].data, off * PtrSize))
    ELSE
    With([data \in {Splice(st.cache[level].data, 0, InRange(st, addr, st.block_size),
                           read_buffer(st, addr, st.block_size))} |->
        With([st1 \in {[st EXCEPT !.cache[level] = [idx |-> addr, data |-> data]]} |->
        Ok(st1, U32(data, off * PtrSize))])])

\* follow one pointer level through the cache
cached_level(r, off, level) ==
    IF r.tag # "ok" THEN r ELSE get_pointer(r.st, to_addr(r.st, r.val), off, level)

\* inner.rs, inode_data, for the byte offset of block block_off that is
\* offset modulo the block size : val = the disk address of the byte
inode_data_blk(st, inode, blk, offset) ==
    With([block_off \in {blk} |->
        IF block_off < OffsetSingly
        THEN data_addr(err_if_zero(st, U32(inode, DirectOff(block_off))), offset)
        ELSE IF block_off < OffsetDoubly(blocknumber_per_block(st))
        THEN data_addr(cached_level(err_if_zero(st, U32(inode, SinglyOff)),
                                    block_off - OffsetSingly, 0), offset)
        ELSE IF block_off < OffsetTriply(blocknumber_per_block(st))
        THEN With([rel \in {block_off - OffsetDoubly(blocknumber_per_block(st))} |->
                 data_addr(cached_level(cached_level(err_if_zero(st, U32(inode, DoublyOff)),
                                                     rel \div blocknumber_per_block(st), 0),
                                        rel % blocknumber_per_block(st), 1), offset)])
        ELSE IF block_off < OffsetEnd(blocknumber_per_block(st))
        THEN With([rel \in {block_off - OffsetTriply(blocknumber_per_block(st))} |->
                 data_addr(cached_level(cached_level(cached_level(
                               err_if_zero(st, U32(inode, TriplyOff)),
                               rel \div (blocknumber_per_block(st) * blocknumber_per_block(st)), 0),
                               (rel % (blocknumber_per_block(st) * blocknumber_per_block(st))) \div blocknumber_per_block(st), 1),
                               (rel % (blocknumber_per_block(st) * blocknumber_per_block(st))) % blocknumber_per_block(st), 2), offset)])
        ELSE Err(st, "FileTooBig")])

\* inner.rs, inode_data : val = the disk address of byte offset
inode_data(st, inode, offset) == inode_data_blk(st, inode, offset \div st.block_size, offset)

(***************************************************************************)
(* Size, truncation and release of an inode                                *)
(***************************************************************************)
SectorSize == 512

\* inode.rs, Inode::update_size
update_size(inode, new_size, block_size) ==
    With([multiplier \in {block_size \div SectorSize} |->
        With([block_off \in {IF new_size = 0 THEN 0 ELSE (new_size - 1) \div block_size} |->
        With([per_block \in {block_size \div PtrSize} |->
        With([block_data \in {IF new_size = 0 THEN 0
        ELSE (block_off + 1) * multiplier
             + (IF block_off >= OffsetSingly THEN multiplier ELSE 0)
             + (IF block_off >= OffsetDoubly(per_block)
                THEN multiplier + (((block_off - OffsetDoubly(per_block)) \div per_block) + 1) * multiplier
                ELSE 0)
             + (IF block_off >= OffsetTriply(per_block)
                THEN multiplier
                     + (((block_off - OffsetTriply(per_block)) \div (per_block * per_block)) + 1) * multiplier
                ELSE 0)} |->
        SetU32(SetU32(SetU32(inode, 4, new_size), 108, (new_size \div U16Mod) \div U16Mod),
               28, block_data)])])])])

\* the loop of truncate_inode : free the blocks block_off, block_off-1, .. lo
RECURSIVE free_blocks_down(_, _, _, _, _)
free_blocks_down(st, inode, inode_addr, block_off, lo) ==
    IF block_off < lo THEN WithIno(Ok(st, 0), inode)
    ELSE
    With([r \in {inode_free_block(st, inode, inode_addr, block_off)} |->
        IF r.tag = "err" THEN WithIno(Panic(r.st, "unwrap on Err (inode_free_block)"), r.ino)
        ELSE IF r.tag # "ok" THEN r
        ELSE free_blocks_down(r.st, r.ino, inode_addr, block_off - 1, lo)])

\* inner.rs, truncate_inode
truncate_inode(st, inode, inode_addr, new_size) ==
    With([size \in {get_size(inode)} |->
        IF ~(new_size <= size) THEN WithIno(Panic(st, "assert new_size <= size"), inode)
        ELSE IF size = 0 THEN WithIno(Ok(st, 0), inode)
        ELSE
        With([r \in {free_blocks_down(st, inode, inode_addr,
                                      to_block_addr(st, size - 1), to_block_addr(st, new_size))} |->
            IF r.tag # "ok" THEN r
            ELSE
            With([ino1 \in {update_size(r.ino, new_size, st.block_size)} |->
                WithIno(Ok([r.st EXCEPT !.disk = write_struct(r.st, inode_addr, InodeStructSize, ino1)], 0),
                        ino1)])])])

\* inner.rs, free_inode
free_inode(st, inode, inode_addr, inode_nbr) ==
    IF ~(inode_nbr >= 1) THEN Panic(st, "assert inode_nbr >= 1")
    ELSE
    With([rt \in {IF ~(is_symlink(inode) /\ get_size(inode) <= FAST_SYMLINK_SIZE_MAX)
                  THEN truncate_inode(st, inode, inode_addr, 0)
                  ELSE WithIno(Ok(st, 0), inode)} |->
        IF rt.tag = "err" THEN Panic(rt.st, "unwrap on Err (truncate_inode)")
        ELSE IF rt.tag # "ok" THEN [st |-> rt.st, tag |-> rt.tag, val |-> rt.val]
        ELSE IF inodes_per_block_grp(st) = 0 THEN Panic(rt.st, "attempt to divide by zero")
        ELSE
        With([block_grp \in {(inode_nbr - 1) \div inodes_per_block_grp(st)} |->
            With([index \in {(inode_nbr - 1) % inodes_per_block_grp(st)} |->
            With([rd \in {get_block_grp_descriptor(rt.st, block_grp)} |->
            IF rd.tag # "ok" THEN rd
            ELSE
            With([baddr \in {Plus(to_addr(st, inode_usage_bitmap(rd.val.d)), index \div 8)} |->
                IF ~read_struct_ok(rt.st, baddr, 1) THEN Err(rt.st, "OutOfSpace")
                ELSE
                With([bitmap \in {Get(read_struct(rt.st, baddr, 1), 0)} |->
                    IF ~get_bit(bitmap, index % 8) THEN Panic(rt.st, "assert get_bit (free_inode)")
                    ELSE
                    With([byte \in {set_bit(bitmap, index % 8, FALSE)} |->
                        With([st1 \in {[rt.st EXCEPT !.disk = write_struct(rt.st, baddr, 1, LE(byte, 1))]} |->
                        IF nbr_free_inodes(rd.val.d) = U16Mod - 1
                        THEN Panic(st1, "attempt to add with overflow")
                        ELSE
                        With([d1 \in {SetU16(rd.val.d, 14, nbr_free_inodes(rd.val.d) + 1)} |->
                            With([st2 \in {write_superblock([st1 EXCEPT !.fi = @ + 1])} |->
                            Ok([st2 EXCEPT !.disk = write_struct(st2, rd.val.addr, DescSize, d1)], 0)])])])])])])])])])])

\* inner.rs, unlink_inode
unlink_inode(st, inode_nbr, free_inode_data) ==
    With([rg \in {get_inode(st, inode_nbr)} |->
        IF rg.tag # "ok" THEN rg
        ELSE IF is_a_directory(rg.val.inode) THEN Err(st, "IsDirectory")
        ELSE IF nbr_hard_links(rg.val.inode) <= 1 /\ free_inode_data
        THEN free_inode(st, rg.val.inode, rg.val.addr, inode_nbr)
        ELSE IF nbr_hard_links(rg.val.inode) = 0 THEN Panic(st, "attempt to subtract with overflow")
        ELSE Ok([st EXCEPT !.disk = write_struct(st, rg.val.addr, InodeStructSize,
                                                 SetU16(rg.val.inode, 26, nbr_hard_links(rg.val.inode) - 1))],
                0)])

(***************************************************************************)
(* Directory entries (body/directory_entry.rs).  A name is the sequence of *)
(* its bytes; an entry in memory is the packed 264-byte struct.            *)
(***************************************************************************)
\* DirectoryEntryHeader and DirectoryEntry are #[repr(packed)] without
\* repr(C) (directory_entry.rs 29, 46) : the fields are laid out without
\* padding, in an order that is the compiler's choice, and no toolchain is
\* pinned.  The engine carries the order of its build in the field layout :
\*   "type_first" : type_indicator, the field with the niche, comes first :
\*                  type_indicator at 0, inode at 1, size at 5,
\*                  name_length at 7;
\*   "declared"   : the order of the declaration, which is the order of the
\*                  ext2 record : inode at 0, size at 4, name_length at 6,
\*                  type_indicator at 7.
\* In both the header is the first 8 bytes of DirectoryEntry and the name
\* field follows it.
Layouts == {"type_first", "declared"}

\* where each field of DirectoryEntryHeader is in the bytes of the struct
FieldAt(layout) ==
    IF layout = "declared"
    THEN [inode |-> 0, size |-> 4, name_length |-> 6, type_indicator |-> 7]
    ELSE [type_indicator |-> 0, inode |-> 1, size |-> 5, name_length |-> 7]

\* An entry in memory is held by its fields, written here in the order
\* of the declaration (inode, size, name_length, type_indicator, filename) :
\* the accessors below read and write fields by name, as the code does.  The
\* order of the build matters where the bytes of the struct are read from
\* the device or written to it : StructBytes, StructOfBytes.

\* the bytes of the struct whose fields are e, as write_struct sees them
StructBytes(layout, e) ==
    With([at \in {FieldAt(layout)} |->
        Splice(Splice(Splice(Splice(Splice(Empty, DirHeaderSize, FILENAME_MAX + 1,
                                           Slice(e, DirHeaderSize, FILENAME_MAX + 1)),
                                    at.inode, 4, Slice(e, 0, 4)),
                             at.size, 2, Slice(e, 4, 2)),
                      at.name_length, 1, Slice(e, 6, 1)),
               at.type_indicator, 1, Slice(e, 7, 1))])

\* the fields of the struct that read_struct fills with the bytes raw
StructOfBytes(layout, raw) ==
    With([at \in {FieldAt(layout)} |->
        Splice(Splice(Splice(Splice(Splice(Empty, DirHeaderSize, FILENAME_MAX + 1,
                                           Slice(raw, DirHeaderSize, FILENAME_MAX + 1)),
                                    0, 4, Slice(raw, at.inode, 4)),
                             4, 2, Slice(raw, at.size, 2)),
                      6, 1, Slice(raw, at.name_length, 1)),
               7, 1, Slice(raw, at.type_indicator, 1))])

Slash == 47
Dot == <<46>>
DotDot == <<46, 46>>

\* DirectoryEntryType
DT_RegularFile == 1
DT_Directory == 2
DT_SymbolicLink == 7

\* DirectoryEntry::get_inode
DE_get_inode(e) == U32(e, 0)

DE_get_size(e) == U16(e, 4)

DE_name_length(e) == Get(e, 6)

DE_type(e) == Get(e, 7)

\* DirectoryEntry::get_filename
DE_get_filename(e) == ToSeq(e, DirHeaderSize, DE_name_length(e))

\* DirectoryEntry::size
DE_size(e) == DE_name_length(e) + DirHeaderSize

\* DirectoryEntry::set_size
DE_set_size(e, new_size) == SetU16(e, 4, new_size)

\* Filename::try_from with the length test off by one : a name of
\* FILENAME_MAX bytes is refused
Filename_try_from_short(s) ==
    IF Len(s) >= FILENAME_MAX THEN "NameTooLong"
    ELSE IF Len(s) = 0 THEN "StringEmpty"
    ELSE IF \E i \in 1..Len(s) : s[i] = Slash THEN "IllegalCharacter"
    ELSE "ok"

\* impl TryFrom<&str> for Filename : "ok" or the Errno
Filename_try_from(s) ==
    IF Len(s) > FILENAME_MAX THEN "NameTooLong"
    ELSE IF Len(s) = 0 THEN "StringEmpty"
    ELSE IF \E i \in 1..Len(s) : s[i] = Slash THEN "IllegalCharacter"
    ELSE "ok"

\* DirectoryEntry::new
DirectoryEntry_new(st, filename, type_indicator, inode) ==
    IF Filename_try_from(filename) # "ok" THEN Err(st, Filename_try_from(filename))
    ELSE Ok(st, Splice(Splice(SetU16(SetU32(Empty, 0, inode), 4, DirEntryStructSize),
                              6, 2, LE((Len(filename) % 256) + 256 * type_indicator, 2)),
                       DirHeaderSize, Len(filename), OfSeq(filename)))

\* DirectoryEntry::set_filename
DE_set_filename(st, e, filename) ==
    IF ~(Len(filename) <= FILENAME_MAX) THEN Panic(st, "assert filenamelen <= FILENAME_MAX")
    ELSE IF Filename_try_from(filename) # "ok" THEN Err(st, Filename_try_from(filename))
    ELSE Ok(st, Splice(Splice(e, DirHeaderSize, FILENAME_MAX + 1, OfSeq(filename)),
                       6, 1, LE(Len(filename), 1)))

\* DirectoryEntry::write_on_disk : write_struct of the header, the 8 bytes
\* of the struct in the order of the build, then name_length bytes of name
DE_write_on_disk(st, addr, e) ==
    write_buffer([st EXCEPT !.disk = write_struct(st, addr, DirHeaderSize,
                                         Slice(StructBytes(st.layout, e), 0, DirHeaderSize))],
                 Plus(addr, DirHeaderSize), DE_name_length(e),
                 Slice(e, DirHeaderSize, DE_name_length(e)))

\* impl TryFrom<TypePerm> for DirectoryEntryType : 0 stands for InvalidEntryType
DirectoryEntryType_try_from(tp) ==
    With([ft \in {extract_type(tp)} |->
        IF ft = 49152 THEN 6
        ELSE IF ft = FT_Symlink THEN DT_SymbolicLink
        ELSE IF ft = FT_RegularFile THEN DT_RegularFile
        ELSE IF ft = 24576 THEN 4
        ELSE IF ft = FT_Directory THEN DT_Directory
        ELSE IF ft = 8192 THEN 3
        ELSE IF ft = 4096 THEN 5
        ELSE 0])

(***************************************************************************)
(* Directory chain (inner.rs, find_entry .. delete_entry)                  *)
(***************************************************************************)
NoDirEntry == [some |-> FALSE]

\* enum Errno (mod.rs), in the order of its discriminants 0 .. 15
Errnos ==
    <<"UnknownIO", "OutOfSpace", "NotFound", "IllegalCharacter", "StringEmpty", "NameTooLong",
      "InvalidEntryType", "AccessError", "IsDirectory", "NotDirectory", "Unsupported",
      "AlreadyExists", "InvalidFileImage", "NoEntry", "BadBlock", "FileTooBig">>

ErrnoOf(n) == IF n < Len(Errnos) THEN Errnos[n + 1] ELSE "no Errno"

\* disk.read_struct::<DirectoryEntry> : the 264 bytes of the device become
\* the bytes of the struct, so each field holds the bytes at its place in
\* the order of the build.  DirectoryEntryType has the variants 1 .. 7, so a
\* struct whose type_indicator byte is 0 is not a value of the type and
\* assume_init on it is undefined behaviour.  The builds keep the tag of
\* IoResult<DirectoryEntry> in that byte, 0 standing for Err : the record
\* comes back as Err (its Errno, which find_entry drops, is numbered by the
\* low byte of the inode field).  A type byte of 8 .. 255 comes back as Ok.
read_struct_entry(st, addr) ==
    IF ~read_struct_ok(st, addr, DirEntryStructSize) THEN Err(st, "OutOfSpace")
    ELSE With([e \in {StructOfBytes(st.layout, read_struct(st, addr, DirEntryStructSize))} |->
             IF DE_type(e) = 0 THEN Err(st, ErrnoOf(Get(e, 0))) ELSE Ok(st, e)])

\* inner.rs, find_entry
find_entry(st, inode, offset) ==
    IF offset >= get_size(inode) THEN NoDirEntry
    ELSE
    With([r \in {inode_data_xxx(st, inode, offset)} |->
        IF r.tag # "ok" THEN NoDirEntry
        ELSE With([rs \in {read_struct_entry(st, r.val)} |->
                 IF rs.tag # "ok" THEN NoDirEntry
                 ELSE [some |-> TRUE, e |-> rs.val]])])

\* EntryIter::next run to exhaustion : the items yielded, and how it ends
\* ("none" : it returns None; "loop" : the last item is yielded again for
\* ever; "spin" : next() recurses without end on a record of inode 0, size 0)
RECURSIVE entries_from(_, _, _, _)
entries_from(st, inode, curr_offset, acc) ==
    With([d \in {find_entry(st, inode, curr_offset)} |->
        IF ~d.some THEN [items |-> acc, end |-> "none"]
        ELSE IF DE_get_size(d.e) = 0
        THEN IF DE_get_inode(d.e) = 0 THEN [items |-> acc, end |-> "spin"]
             ELSE [items |-> Append(acc, [e |-> d.e, off |-> curr_offset]), end |-> "loop"]
        ELSE entries_from(st, inode, curr_offset + DE_get_size(d.e),
                          IF DE_get_inode(d.e) = 0 THEN acc
                          ELSE Append(acc, [e |-> d.e, off |-> curr_offset]))])

\* inner.rs, iter_entries : val = the iteration
iter_entries(st, inode_nbr) ==
    With([rg \in {get_inode(st, inode_nbr)} |->
        IF rg.tag # "ok" THEN rg
        ELSE IF ~is_a_directory(rg.val.inode) THEN Err(st, "IsDirectory")
        ELSE Ok(st, entries_from(st, rg.val.inode, 0, <<>>))])

\* Iterator::last
iter_last(st, it) ==
    IF it.end # "none" THEN Hang(st)
    ELSE IF it.items = <<>> THEN Ok(st, NoDirEntry)
    ELSE Ok(st, [some |-> TRUE, e |-> it.items[Len(it.items)].e, off |-> it.items[Len(it.items)].off])

\* Iterator::find(|(x, _)| x.get_filename() == filename)
iter_find(st, it, filename) ==
    With([hits \in {{i \in 1..Len(it.items) : DE_get_filename(it.items[i].e) = filename}} |->
        IF hits # {} THEN Ok(st, [some |-> TRUE, e |-> it.items[SetMin(hits)].e,
                                  off |-> it.items[SetMin(hits)].off])
        ELSE IF it.end # "none" THEN Hang(st)
        ELSE Ok(st, NoDirEntry)])

\* Iterator::take_while(|(_, off)| *off < entry_off).last()
iter_last_before(st, it, entry_off) ==
    With([stop \in {{i \in 1..Len(it.items) : ~(it.items[i].off < entry_off)}} |->
        With([n \in {IF stop # {} THEN SetMin(stop) - 1 ELSE Len(it.items)} |->
        IF stop = {} /\ it.end # "none" THEN Hang(st)
        ELSE IF n = 0 THEN Ok(st, NoDirEntry)
        ELSE Ok(st, [some |-> TRUE, e |-> it.items[n].e, off |-> it.items[n].off])])])

\* inner.rs, find_entry_in_inode : val = [e, off]
find_entry_in_inode(st, inode_nbr, filename) ==
    With([ri \in {iter_entries(st, inode_nbr)} |->
        IF ri.tag # "ok" THEN ri
        ELSE With([rf \in {iter_find(st, ri.val, filename)} |->
                 IF rf.tag # "ok" THEN rf
                 ELSE IF ~rf.val.some THEN Err(st, "NoEntry")
                 ELSE rf])])

\* a result without the in-memory inode
Plain(r) == [st |-> r.st, tag |-> r.tag, val |-> r.val]

\* inner.rs, set_as_last_entry : val = the entry with its final record length
set_as_last_entry(st, inode, inode_addr, entry, entry_offset) ==
    With([ra \in {inode_data_alloc(st, inode, inode_addr, entry_offset)} |->
        IF ra.tag # "ok" THEN ra
        ELSE
        With([e1 \in {DE_set_size(entry, u32_align_next(entry_offset + 1, st.block_size) - entry_offset)} |->
            With([st1 \in {[ra.st EXCEPT !.disk = DE_write_on_disk(ra.st, ra.val, e1)]} |->
            With([new_size \in {entry_offset + DE_get_size(e1)} |->
            IF new_size < get_size(ra.ino)
            THEN With([rt \in {truncate_inode(st1, ra.ino, inode_addr, new_size)} |->
                     IF rt.tag # "ok" THEN rt ELSE [rt EXCEPT !.val = e1]])
            ELSE With([ino1 \in {update_size(ra.ino, new_size, st.block_size)} |->
                     WithIno(Ok([st1 EXCEPT !.disk = write_struct(st1, inode_addr, InodeStructSize, ino1)],
                                e1), ino1)])])])])])

\* inner.rs, push_entry : val = the entry with its final record length
push_entry(st, parent_inode_nbr, new_entry) ==
    With([rg \in {get_inode(st, parent_inode_nbr)} |->
        IF rg.tag # "ok" THEN rg
        ELSE
        With([ri \in {iter_entries(st, parent_inode_nbr)} |->
            IF ri.tag # "ok" THEN ri
            ELSE
            With([rl \in {iter_last(st, ri.val)} |->
                IF rl.tag # "ok" THEN rl
                ELSE IF ~rl.val.some
                THEN Plain(set_as_last_entry(st, rg.val.inode, rg.val.addr, new_entry, 0))
                ELSE
                With([offset \in {rl.val.off} |->
                    With([rx \in {inode_data_xxx(st, rg.val.inode, offset)} |->
                    With([entry_size \in {DE_size(rl.val.e)} |->
                    With([near \in {align_next(offset + entry_size, 4)} |->
                    With([same_block \in {to_block(st, near) = to_block(st, near + DE_size(new_entry))} |->
                    With([rm \in {IF same_block
                                  THEN inode_data_may_alloc(st, rg.val.inode, rg.val.addr, near)
                                  ELSE WithIno(Ok(st, 0), rg.val.inode)} |->
                    With([new_offset \in {IF same_block /\ rm.tag = "ok" THEN near
                                          ELSE align_next(offset + entry_size, st.block_size)} |->
                    IF rx.tag # "ok" THEN Panic(st, "unwrap on Err (inode_data_xxx)")
                    ELSE IF rm.tag \in {"panic", "hang"} THEN Plain(rm)
                    ELSE
                    With([e1 \in {DE_set_size(rl.val.e, new_offset - offset)} |->
                        With([st1 \in {[rm.st EXCEPT !.disk = DE_write_on_disk(rm.st, rx.val, e1)]} |->
                        Plain(set_as_last_entry(st1, rm.ino, rg.val.addr, new_entry, new_offset))])])])])])])])])])])])])

\* inner.rs, delete_entry
delete_entry(st, parent_inode_nbr, entry_off) ==
    With([rg \in {get_inode(st, parent_inode_nbr)} |->
        IF rg.tag # "ok" THEN rg
        ELSE
        With([entry \in {find_entry(st, rg.val.inode, entry_off)} |->
            With([ri \in {iter_entries(st, parent_inode_nbr)} |->
            IF ~entry.some THEN Panic(st, "unwrap on None (find_entry)")
            ELSE IF ri.tag = "err" THEN Panic(st, "unwrap on Err (iter_entries)")
            ELSE IF ri.tag # "ok" THEN ri
            ELSE
            With([rp \in {iter_last_before(st, ri.val, entry_off)} |->
                IF rp.tag # "ok" THEN rp
                ELSE IF ~rp.val.some THEN Panic(st, "unwrap on None (no previous entry)")
                ELSE
                With([next_entry_off \in {entry_off + DE_get_size(entry.e)} |->
                    IF ~find_entry(st, rg.val.inode, next_entry_off).some
                    THEN With([rs \in {set_as_last_entry(st, rg.val.inode, rg.val.addr,
                                                         rp.val.e, rp.val.off)} |->
                             IF rs.tag = "ok" THEN Ok(rs.st, 0) ELSE Plain(rs)])
                    ELSE
                    With([ra \in {inode_data_may_alloc(st, rg.val.inode, rg.val.addr, rp.val.off)} |->
                        IF ra.tag = "err" THEN Panic(ra.st, "unwrap on Err (inode_data_may_alloc)")
                        ELSE IF ra.tag # "ok" THEN Plain(ra)
                        ELSE Ok([ra.st EXCEPT !.disk =
                                     DE_write_on_disk(ra.st, ra.val,
                                         DE_set_size(rp.val.e, next_entry_off - rp.val.off))], 0)])])])])])])

(***************************************************************************)
(* Inode-level interface (inner/syscall.rs)                                *)
(***************************************************************************)
\* what create / create_dir / link return
Entry(inode_nbr, directory, inode) == [nbr |-> inode_nbr, directory |-> directory, inode |-> inode]

\* the inode create and create_dir build in memory
fresh_inode(type_perm, timestamp, owner, group) ==
    SetU32(SetU32(SetU32(SetU16(SetU16(Inode_new(type_perm), 2, owner), 24, group),
                         8, timestamp), 12, timestamp), 16, timestamp)

\* the common tail of create / create_dir : write the inode, build and push
\* the entry naming it
write_and_push(st, inode_nbr, inode_addr, inode, filename, dtype, parent_inode_nbr) ==
    With([st1 \in {[st EXCEPT !.disk = write_struct(st, inode_addr, InodeStructSize, inode)]} |->
        With([rn \in {DirectoryEntry_new(st1, filename, dtype, inode_nbr)} |->
        IF rn.tag # "ok" THEN rn
        ELSE push_entry(st1, parent_inode_nbr, rn.val)])])

\* syscall.rs, create
create(st, filename, parent_inode_nbr, timestamp, type_perm, owner, group) ==
    IF DirectoryEntryType_try_from(type_perm) = 0 THEN Err(st, "InvalidEntryType")
    ELSE
    With([ra \in {alloc_inode(st)} |->
        IF ra.tag = "panic" THEN ra
        ELSE IF ra.tag # "ok" THEN Err(st, "OutOfSpace")
        ELSE
        With([rg \in {get_inode(ra.st, ra.val)} |->
            IF rg.tag # "ok" THEN rg
            ELSE
            With([inode \in {fresh_inode(type_perm, timestamp, owner, group)} |->
                With([rp \in {write_and_push(ra.st, ra.val, rg.val.addr, inode, filename,
                                             DirectoryEntryType_try_from(type_perm), parent_inode_nbr)} |->
                IF rp.tag # "ok" THEN rp
                ELSE Ok(rp.st, Entry(ra.val, rp.val, inode))])])])])

\* syscall.rs, create_dir
create_dir(st, parent_inode_nbr, filename, timestamp, mode, owner, group) ==
    With([ra \in {alloc_inode(st)} |->
        IF ra.tag = "panic" THEN ra
        ELSE IF ra.tag # "ok" THEN Err(st, "OutOfSpace")
        ELSE
        With([rg \in {get_inode(ra.st, ra.val)} |->
            IF rg.tag # "ok" THEN rg
            ELSE
            With([tp \in {mode + FT_Directory - AndBit(mode \div 16384, 0) * 16384} |->
                With([inode \in {SetU32(SetU16(fresh_inode(tp, timestamp, owner, group), 26, 2),
                                        4, st.block_size)} |->
                With([rp \in {write_and_push(ra.st, ra.val, rg.val.addr, inode, filename,
                                             DT_Directory, parent_inode_nbr)} |->
                IF rp.tag # "ok" THEN rp
                ELSE
                With([r1 \in {DirectoryEntry_new(rp.st, Dot, DT_Directory, ra.val)} |->
                    With([r2 \in {DirectoryEntry_new(rp.st, DotDot, DT_Directory, parent_inode_nbr)} |->
                    With([p1 \in {push_entry(rp.st, ra.val, r1.val)} |->
                    IF p1.tag # "ok" THEN p1
                    ELSE
                    With([p2 \in {push_entry(p1.st, ra.val, r2.val)} |->
                        IF p2.tag # "ok" THEN p2
                        ELSE Ok(p2.st, Entry(ra.val, rp.val, inode))])])])])])])])])])

\* syscall.rs, unlink
unlink(st, parent_inode_nbr, filename, free_inode_data) ==
    With([rf \in {find_entry_in_inode(st, parent_inode_nbr, filename)} |->
        IF rf.tag # "ok" THEN rf
        ELSE
        With([ru \in {unlink_inode(st, DE_get_inode(rf.val.e), free_inode_data)} |->
            IF ru.tag # "ok" THEN ru
            ELSE
            With([rd \in {delete_entry(ru.st, parent_inode_nbr, rf.val.off)} |->
                IF rd.tag = "err" THEN Panic(rd.st, "expect on Err (delete_entry)")
                ELSE rd])])])

\* syscall.rs, rmdir
rmdir(st, parent_inode_nbr, filename) ==
    With([rf \in {find_entry_in_inode(st, parent_inode_nbr, filename)} |->
        IF rf.tag # "ok" THEN rf
        ELSE
        With([inode_nbr \in {DE_get_inode(rf.val.e)} |->
            With([rg \in {get_inode(st, inode_nbr)} |->
            IF rg.tag # "ok" THEN rg
            ELSE IF ~is_a_directory(rg.val.inode) THEN Err(st, "NotDirectory")
            ELSE
            With([rr \in {free_inode(st, rg.val.inode, rg.val.addr, inode_nbr)} |->
                IF rr.tag # "ok" THEN rr
                ELSE delete_entry(rr.st, parent_inode_nbr, rf.val.off)])])])])

\* syscall.rs, rename
rename(st, parent_inode_nbr, filename, new_parent_inode_nbr, new_filename) ==
    With([rf \in {find_entry_in_inode(st, parent_inode_nbr, filename)} |->
        IF rf.tag # "ok" THEN rf
        ELSE
        With([rd \in {delete_entry(st, parent_inode_nbr, rf.val.off)} |->
            IF rd.tag # "ok" THEN rd
            ELSE
            With([rs \in {DE_set_filename(rd.st, rf.val.e, new_filename)} |->
                IF rs.tag # "ok" THEN rs
                ELSE
                With([rp \in {push_entry(rd.st, new_parent_inode_nbr, rs.val)} |->
                    IF rp.tag # "ok" THEN rp ELSE Ok(rp.st, 0)])])])])

\* syscall.rs, link
link(st, parent_inode_nbr, target_inode_nbr, filename) ==
    With([rg \in {get_inode(st, target_inode_nbr)} |->
        IF rg.tag # "ok" THEN rg
        ELSE IF ~is_a_regular_file(rg.val.inode) THEN Err(st, "AccessError")
        ELSE
        With([rn \in {DirectoryEntry_new(st, filename, DT_RegularFile, target_inode_nbr)} |->
            IF rn.tag # "ok" THEN rn
            ELSE
            With([rp \in {push_entry(st, parent_inode_nbr, rn.val)} |->
                IF rp.tag # "ok" THEN rp
                ELSE IF nbr_hard_links(rg.val.inode) = U16Mod - 1
                THEN Panic(rp.st, "attempt to add with overflow")
                ELSE
                With([ino1 \in {SetU16(rg.val.inode, 26, nbr_hard_links(rg.val.inode) + 1)} |->
                    Ok([rp.st EXCEPT !.disk = write_struct(rp.st, rg.val.addr, InodeStructSize, ino1)],
                       Entry(target_inode_nbr, rp.val, ino1))])])])])

\* syscall.rs, truncate
truncate(st, inode_nbr, new_size) ==
    With([rg \in {get_inode(st, inode_nbr)} |->
        IF rg.tag # "ok" THEN rg
        ELSE IF ~is_a_regular_file(rg.val.inode) THEN Err(st, "IsDirectory")
        ELSE With([rt \in {truncate_inode(st, rg.val.inode, rg.val.addr, new_size)} |->
                 IF rt.tag = "ok" THEN Ok(rt.st, 0) ELSE Plain(rt)])])

\* A caller's buffer : its length and its bytes (sparse).
Buf(len, bytes) == [len |-> len, bytes |-> bytes]

\* a result of write or read that is not Ok, with *file_offset as the call
\* leaves it
WithOff(r, file_offset) == [st |-> r.st, tag |-> r.tag, val |-> r.val, off |-> file_offset]

\* one chunk of write : resolve (allocating) the block of file_offset, move
\* the chunk, grow the size; val = [n |-> bytes moved, off |-> file offset]
RECURSIVE write_chunks(_, _, _, _, _, _, _, _)
write_chunks(st, inode, inode_addr, file_offset, start, buf, pos, chunk) ==
    With([ra \in {inode_data_alloc(st, inode, inode_addr, file_offset)} |->
        IF ra.tag # "ok" THEN WithOff(ra, file_offset)
        ELSE
        With([data_write \in {InRange(ra.st, ra.val, chunk)} |->
            With([st1 \in {[ra.st EXCEPT !.disk = write_buffer(ra.st, ra.val, chunk, Slice(buf.bytes, pos, chunk))]} |->
            With([off1 \in {file_offset + data_write} |->
            With([grow \in {get_size(ra.ino) < off1} |->
            With([ino1 \in {IF grow THEN update_size(ra.ino, off1, st.block_size) ELSE ra.ino} |->
            With([st2 \in {IF grow
                           THEN [st1 EXCEPT !.disk = write_struct(st1, inode_addr, InodeStructSize, ino1)]
                           ELSE st1} |->
            With([rest \in {buf.len - (pos + chunk)} |->
            IF data_write < chunk \/ rest = 0
            THEN Ok(st2, [n |-> off1 - start, off |-> off1, inode |-> ino1])
            ELSE write_chunks(st2, ino1, inode_addr, off1, start, buf, pos + chunk,
                              Min(st.block_size, rest))])])])])])])])])

\* syscall.rs, write
write(st, inode_nbr, file_offset, buf) ==
    With([rg \in {get_inode(st, inode_nbr)} |->
        IF rg.tag # "ok" THEN WithOff(rg, file_offset)
        ELSE IF file_offset > get_size(rg.val.inode) \/ buf.len = 0
        THEN Ok(st, [n |-> 0, off |-> file_offset, inode |-> rg.val.inode])
        ELSE write_chunks(st, rg.val.inode, rg.val.addr, file_offset, file_offset, buf, 0,
                          Min(st.block_size - (file_offset % st.block_size), buf.len))])

\* the inner loop of read : gather a run of blocks contiguous on the device
\* val = [off |-> file offset, n |-> bytes_to_read, start |-> start address]
\* (*file_offset has moved past the blocks gathered when inode_data fails)
RECURSIVE gather(_, _, _, _, _, _, _)
gather(st, inode, file_offset, buf_len, bytes_to_read, start, last) ==
    With([rd \in {inode_data(st, inode, file_offset)} |->
        IF rd.tag = "err" THEN WithOff(Panic(rd.st, "expect on Err (inode_data)"), file_offset)
        ELSE IF rd.tag # "ok" THEN WithOff(rd, file_offset)
        ELSE IF last # NoIdx /\ rd.val # Plus(last, st.block_size)
        THEN Ok(rd.st, [off |-> file_offset, n |-> bytes_to_read, start |-> start])
        ELSE
        With([bytes \in {Min(Min(st.block_size - (file_offset % st.block_size),
                                 get_size(inode) - file_offset),
                             buf_len - bytes_to_read)} |->
            With([start1 \in {IF last = NoIdx THEN rd.val ELSE start} |->
            IF bytes_to_read + bytes = buf_len
            THEN Ok(rd.st, [off |-> file_offset + bytes, n |-> buf_len, start |-> start1])
            ELSE gather(rd.st, inode, file_offset + bytes, buf_len, bytes_to_read + bytes,
                        start1, rd.val)])])])

\* the outer loop of read : val = [n |-> bytes read, off, data |-> the bytes]
RECURSIVE read_runs(_, _, _, _, _, _)
read_runs(st, inode, file_offset, start, buf_len, data) ==
    IF buf_len = 0 THEN Ok(st, [n |-> file_offset - start, off |-> file_offset, data |-> data])
    ELSE
    With([rg \in {gather(st, inode, file_offset, buf_len, 0, NoIdx, NoIdx)} |->
        IF rg.tag # "ok" THEN rg
        ELSE IF InRange(rg.st, rg.val.start, rg.val.n) # rg.val.n
        THEN WithOff(Panic(rg.st, "assert data_read == bytes_to_read"), rg.val.off)
        ELSE read_runs(rg.st, inode, rg.val.off, start, buf_len - rg.val.n,
                       Splice(data, file_offset - start, rg.val.n,
                              read_buffer(rg.st, rg.val.start, rg.val.n)))])

\* syscall.rs, read
read(st, inode_nbr, file_offset, buf_len) ==
    With([rg \in {get_inode(st, inode_nbr)} |->
        IF rg.tag # "ok" THEN WithOff(rg, file_offset)
        ELSE IF file_offset >= get_size(rg.val.inode)
        THEN Ok(st, [n |-> 0, off |-> file_offset, data |-> Empty])
        ELSE read_runs([st EXCEPT !.cache = Cache_invalidate(@)], rg.val.inode, file_offset,
                       file_offset,
                       Min(buf_len, get_size(rg.val.inode) - file_offset), Empty)])


\* FilePerms::AllAllowed
AllAllowed == 511

\* the target in the pointer slots, the size left as it was
write_symlink_sizeless(inode, target) ==
    Splice(inode, DirectOff(0), Len(target), OfSeq(target))

\* Inode::write_symlink : the target in the bytes of the 15 pointer slots
\* (the caller has tested the length)
write_symlink(inode, target) ==
    SetU32(Splice(inode, DirectOff(0), Len(target), OfSeq(target)), 4, Len(target))

\* syscall.rs, symlink
symlink(st, parent_inode_nbr, target, filename, timestamp) ==
    With([ra \in {alloc_inode(st)} |->
        IF ra.tag = "panic" THEN ra
        ELSE IF ra.tag # "ok" THEN Err(st, "OutOfSpace")
        ELSE
        With([rg \in {get_inode(ra.st, ra.val)} |->
            IF rg.tag # "ok" THEN rg
            ELSE
            With([fast \in {Len(target) <= FAST_SYMLINK_SIZE_MAX} |->
                With([new \in {Inode_new(AllAllowed + FT_Symlink)} |->
                With([inode \in {SetU32(SetU32(SetU32(IF fast THEN write_symlink(new, target) ELSE new,
                                                      8, timestamp), 12, timestamp), 16, timestamp)} |->
                With([st1 \in {[ra.st EXCEPT !.disk = write_struct(ra.st, rg.val.addr, InodeStructSize, inode)]} |->
                With([rw \in {IF fast THEN Ok(st1, 0)
                              ELSE write(st1, ra.val, 0, Buf(Len(target), OfSeq(target)))} |->
                IF rw.tag # "ok" THEN Plain(rw)
                ELSE
                With([rf \in {IF fast THEN Ok(rw.st, [inode |-> inode])
                              ELSE get_inode(rw.st, ra.val)} |->
                    IF rf.tag # "ok" THEN Plain(rf)
                    ELSE
                    With([rn \in {DirectoryEntry_new(rf.st, filename, DT_SymbolicLink, ra.val)} |->
                        IF rn.tag # "ok" THEN rn
                        ELSE
                        With([rp \in {push_entry(rf.st, parent_inode_nbr, rn.val)} |->
                            IF rp.tag # "ok" THEN rp
                            ELSE Ok(rp.st, Entry(ra.val, rp.val, rf.val.inode))])])])])])])])])])])

(***************************************************************************)
(* The volume the engine is constructed on.  Four groups of 16 blocks and  *)
(* 16 inodes.  Group 0 is full; groups 1..3 hold their bitmaps and inode   *)
(* table in their blocks 2..5 and are otherwise free, but for block 25.    *)
(*                                                                         *)
(*   /        inode 2   block 7     . .. a b p q r s t                     *)
(*   /a       inode 25  blocks 8,10 . ..  |  f g d u   (second block full) *)
(*   /a/f     inode 33  block 9     5 bytes                                *)
(*   /a/g     inode 57  blocks 13,14   1030 bytes                          *)
(*   /a/d     inode 49  block 25    . ..                                   *)
(*   /a/u     inode 12  blocks 12,15,16   3072 bytes                       *)
(*   /b       inode 41  block 11    . ..                                   *)
(*   /p .. /t inodes 11, 13 .. 16   empty files                            *)
(***************************************************************************)
Shift(m, base) == [a \in {o + base : o \in DOMAIN m} |-> m[a - base]]

RootIno == 2
InoA == 25
InoB == 41
InoD == 49
InoF == 33
InoG == 57
InoU == 12
FirstFreeIno == 17

NameA == <<97>>
NameB == <<98>>
NameD == <<100>>
NameF == <<102>>
NameG == <<103>>
NameU == <<117>>
NameN == <<110>>
NameM == <<109>>

DirMode == 16877
FileMode == 33188

\* first block of group g, and the blocks of its block bitmap, inode bitmap
\* and inode table
GrpFirst(g) == BlocksPerGrp * g + 1
GrpBlockBitmap(g) == IF g = 0 THEN 3 ELSE GrpFirst(g) + 1
GrpInodeBitmap(g) == IF g = 0 THEN 4 ELSE GrpFirst(g) + 2
GrpInodeTable(g) == IF g = 0 THEN 5 ELSE GrpFirst(g) + 3
InodeTableBlocks == (InodesPerGrp * SizeInode) \div BlockSize

Groups == 0..(NbrBlockGrp - 1)

MkDesc(g, free_blocks, free_inodes, dirs) ==
    SetU16(SetU16(SetU16(SetU32(SetU32(SetU32(Empty, 0, GrpBlockBitmap(g)),
                                       4, GrpInodeBitmap(g)), 8, GrpInodeTable(g)),
                         12, free_blocks), 14, free_inodes), 16, dirs)

RECURSIVE SetDirect(_, _, _)
SetDirect(inode, blocks, k) ==
    IF k > Len(blocks) THEN inode
    ELSE SetDirect(SetU32(inode, DirectOff(k - 1), blocks[k]), blocks, k + 1)

MkInode(mode, size, links, blocks) ==
    SetDirect(SetU16(update_size(Inode_new(mode), size, BlockSize), 26, links), blocks, 1)

\* the address of inode n in the inode tables of the volume
InodeAddrOf(n) ==
    BlockAddr(GrpInodeTable((n - 1) \div InodesPerGrp)) + ((n - 1) % InodesPerGrp) * SizeInode

PutInode(n, inode) == Shift(inode, InodeAddrOf(n))

\* a directory record : header and name
MkEntry(inode, rec_len, name, dtype) ==
    Splice(Splice(SetU16(SetU32(Empty, 0, inode), 4, rec_len), 6, 2, LE(Len(name) + 256 * dtype, 2)),
           DirHeaderSize, Len(name), OfSeq(name))

PutEntry(block, off, inode, rec_len, name, dtype) ==
    Shift(MkEntry(inode, rec_len, name, dtype), BlockAddr(block) + off)

InitFreeBlocks == 35
InitFreeInodes == 43

ImageMeta ==
    Shift(SuperBlockImage(InitFreeBlocks, InitFreeInodes), SuperblockAddr)
    @@ Shift(MkDesc(0, 0, 0, 1), DescAddr(0))
    @@ Shift(MkDesc(1, 11, 15, 1), DescAddr(1))
    @@ Shift(MkDesc(2, 12, 14, 1), DescAddr(2))
    @@ Shift(MkDesc(3, 12, 14, 1), DescAddr(3))
    @@ Shift(<<255, 255>>, BlockAddr(GrpBlockBitmap(0)) - 1)
    @@ Shift(<<255, 255>>, BlockAddr(GrpInodeBitmap(0)) - 1)
    @@ Shift(<<30, 1>>, BlockAddr(GrpBlockBitmap(1)) - 1)
    @@ Shift(<<30>>, BlockAddr(GrpBlockBitmap(2)) - 1)
    @@ Shift(<<30>>, BlockAddr(GrpBlockBitmap(3)) - 1)
    @@ Shift(<<1>>, BlockAddr(GrpInodeBitmap(1)))
    @@ Shift(<<1, 1>>, BlockAddr(GrpInodeBitmap(2)) - 1)
    @@ Shift(<<1, 1>>, BlockAddr(GrpInodeBitmap(3)) - 1)

ImageInodes ==
    PutInode(RootIno, MkInode(DirMode, 1024, 4, <<7>>))
    @@ PutInode(InoA, MkInode(DirMode, 2048, 3, <<8, 10>>))
    @@ PutInode(InoB, MkInode(DirMode, 1024, 2, <<11>>))
    @@ PutInode(InoD, MkInode(DirMode, 1024, 2, <<25>>))
    @@ PutInode(InoF, MkInode(FileMode, 5, 1, <<9>>))
    @@ PutInode(InoG, MkInode(FileMode, 1030, 1, <<13, 14>>))
    @@ PutInode(InoU, MkInode(FileMode, 3072, 1, <<12, 15, 16>>))
    @@ PutInode(11, MkInode(FileMode, 0, 1, <<>>))
    @@ PutInode(13, MkInode(FileMode, 0, 1, <<>>))
    @@ PutInode(14, MkInode(FileMode, 0, 1, <<>>))
    @@ PutInode(15, MkInode(FileMode, 0, 1, <<>>))
    @@ PutInode(16, MkInode(FileMode, 0, 1, <<>>))

ImageDirs ==
    PutEntry(7, 0, RootIno, 12, Dot, DT_Directory)
    @@ PutEntry(7, 12, RootIno, 12, DotDot, DT_Directory)
    @@ PutEntry(7, 24, InoA, 12, NameA, DT_Directory)
    @@ PutEntry(7, 36, InoB, 12, NameB, DT_Directory)
    @@ PutEntry(7, 48, 11, 12, <<112>>, DT_RegularFile)
    @@ PutEntry(7, 60, 13, 12, <<113>>, DT_RegularFile)
    @@ PutEntry(7, 72, 14, 12, <<114>>, DT_RegularFile)
    @@ PutEntry(7, 84, 15, 12, <<115>>, DT_RegularFile)
    @@ PutEntry(7, 96, 16, 928, <<116>>, DT_RegularFile)
    @@ PutEntry(8, 0, InoA, 12, Dot, DT_Directory)
    @@ PutEntry(8, 12, RootIno, 1012, DotDot, DT_Directory)
    @@ PutEntry(10, 0, InoF, 12, NameF, DT_RegularFile)
    @@ PutEntry(10, 12, InoG, 12, NameG, DT_RegularFile)
    @@ PutEntry(10, 24, InoD, 988, NameD, DT_Directory)
    @@ PutEntry(10, 1012, InoU, 12, NameU, DT_RegularFile)
    @@ PutEntry(11, 0, InoB, 12, Dot, DT_Directory)
    @@ PutEntry(11, 12, RootIno, 1012, DotDot, DT_Directory)
    @@ PutEntry(25, 0, InoD, 12, Dot, DT_Directory)
    @@ PutEntry(25, 12, InoA, 1012, DotDot, DT_Directory)

ImageData ==
    Shift(<<1, 2, 3, 4, 5>>, BlockAddr(9) - 1)
    @@ Shift(<<6, 7>>, BlockAddr(13) - 1)
    @@ Shift(<<8, 9>>, BlockAddr(14) - 1)
    @@ Shift(<<12>>, BlockAddr(12) - 1)
    @@ Shift(<<10>>, BlockAddr(15) - 1)
    @@ Shift(<<11>>, BlockAddr(16) - 1)

Image == ImageMeta @@ ImageInodes @@ ImageDirs @@ ImageData

\* tools::div_rounded_up
div_rounded_up(a, b) == (a + b - 1) \div b

\* SuperBlock::get_ext2_signature
get_ext2_signature(superblock) == U16(superblock, 56)

\* SuperBlock::get_nbr_block_grp : ceil(total blocks / blocks per group)
get_nbr_block_grp(superblock) == div_rounded_up(U32(superblock, 4), U32(superblock, 32))

\* SuperBlock::get_inode_block_grp : ceil(total inodes / inodes per group)
get_inode_block_grp(superblock) == div_rounded_up(U32(superblock, 0), U32(superblock, 40))

\* SuperBlock::get_log2_block_size
get_log2_block_size(superblock) == U32(superblock, 24)

EXT2_SIGNATURE_MAGIC == 61267

\* the width of block_size, a u32
U32Bits == 32

\* what new returns : Ok(the engine), Err(the Errno) or a panic
Mounted(tag, val) == [tag |-> tag, val |-> val]

\* inner.rs, Ext2Filesystem::new, on a device of disk_size bytes : the
\* superblock is read into memory.  1024 << log2_block_size is a u32 : the
\* bits shifted out are lost, so it is 0 from 22 on, and a shift by 32 or
\* more is an overflow.  (With 21 it is 2^31, which TLC does not evaluate.)
Ext2Filesystem_new(disk, disk_size) ==
    With([dev \in {[disk |-> disk, disk_size |-> disk_size, build |-> "read", layout |-> "type_first"]} |->
        IF ~read_struct_ok(dev, Addr(SuperblockAddr), SuperBlockStructSize)
        THEN Mounted("err", "OutOfSpace")
        ELSE
        With([superblock \in {read_struct(dev, Addr(SuperblockAddr), SuperBlockStructSize)} |->
            IF get_ext2_signature(superblock) # EXT2_SIGNATURE_MAGIC
            THEN Mounted("err", "InvalidFileImage")
            ELSE IF U32(superblock, 32) = 0 \/ U32(superblock, 40) = 0
            THEN Mounted("panic", "attempt to divide by zero")
            ELSE IF get_nbr_block_grp(superblock) # get_inode_block_grp(superblock)
            THEN Mounted("panic", "assert_eq nbr_block_grp, get_inode_block_grp")
            ELSE IF get_log2_block_size(superblock) >= U32Bits
            THEN Mounted("panic", "attempt to shift left with overflow")
            ELSE IF get_log2_block_size(superblock) >= U32Bits - BlockShift
            THEN Mounted("panic", "assert block_size != 0")
            ELSE Mounted("ok",
                     [disk |-> disk,
                      disk_size |-> disk_size,
                      superblock |-> superblock,
                      fb |-> U32(superblock, 12),
                      fi |-> U32(superblock, 16),
                      block_size |-> 1024 * Pow2(get_log2_block_size(superblock)),
                      nbr_block_grp |-> get_nbr_block_grp(superblock),
                      cache |-> Cache_new,
                      allocd |-> <<>>, freed |-> <<>>, build |-> "read",
                      layout |-> "type_first"])])])

\* the engine mounted on the volume of Image
new == Ext2Filesystem_new(Image, DiskSize).val

\* the engine st, in each of the builds
Built(st) == {[st EXCEPT !.build = b] : b \in Builds}

\* the engines of S, in each order of the fields of a directory entry
Laid(S) == {[st EXCEPT !.layout = l] : st \in S, l \in Layouts}

(***************************************************************************)
(* The state machine.  One action per operation of the inode-level         *)
(* interface; an action is the whole call.                                 *)
(*   fs   : the engine (device contents, in-memory superblock, cache)      *)
(*   pre  : the engine before the last call                                *)
(*   last : the last call, its arguments and its outcome                   *)
(*   prev : the call before it                                             *)
(*   nops : number of calls made                                           *)
(*   file : the open file handles and the clones of the Ext2, each with    *)
(*          the call it is inside                                          *)
(*   lock : the mutex around the engine, TRUE when held                    *)
(* A panic or a call that never returns ends the behaviour : the kernel's  *)
(* panic handler halts (main.rs).                                          *)
(***************************************************************************)
VARIABLES fs, pre, last, prev, nops, file, lock

vars == <<fs, pre, last, prev, nops, file, lock>>

NoCall == [op |-> "none", args |-> <<>>, tag |-> "ok", val |-> 0]

\* no file handle is open
NoFiles == <<>>

Init ==
    /\ fs \in Built(new)
    /\ pre = fs
    /\ last = NoCall
    /\ prev = NoCall
    /\ nops = 0
    /\ file = NoFiles
    /\ lock = FALSE

\* Init for the specifications that read or write directory records : the
\* engine in each build and each order of the fields of a directory entry
InitNames ==
    /\ fs \in Laid(Built(new))
    /\ pre = fs
    /\ last = NoCall
    /\ prev = NoCall
    /\ nops = 0
    /\ file = NoFiles
    /\ lock = FALSE

\* the engine at the start of a call
Begin == [fs EXCEPT !.allocd = <<>>, !.freed = <<>>]

Running == nops < MaxOps /\ last.tag \in {"ok", "err"}

Step(op, args, r) ==
    /\ Running
    /\ fs' = r.st
    /\ pre' = fs
    /\ prev' = last
    /\ last' = [op |-> op, args |-> args, tag |-> r.tag, val |-> r.val]
    /\ nops' = nops + 1
    /\ UNCHANGED <<file, lock>>

\* inputs
Timestamp == 7
Owner == 1
Group == 1
DirPerm == 493

Parents == {InoA, InoB}
Files == {InoF, InoG}
NewNames == {NameN, NameM}
OldNames == {NameF, NameG, NameD, NameU, NameN}

SmallBuf == Buf(3, OfSeq(<<21, 22, 23>>))
BigBuf == Buf(3073, (0 :> 31) @@ (1024 :> 32) @@ (2048 :> 33) @@ (3072 :> 34))
Bufs == {SmallBuf, BigBuf, Buf(0, Empty)}
Offsets == {0, 5, 2048}
Sizes == {0, 5, 1024}
ReadLens == {3, 3073}

Create ==
    \E p \in Parents, name \in NewNames \cup {NameF} :
        Step("create", <<name, p>>, create(Begin, name, p, Timestamp, FileMode, Owner, Group))

CreateDir ==
    \E p \in Parents, name \in NewNames :
        Step("create_dir", <<p, name>>, create_dir(Begin, p, name, Timestamp, DirPerm, Owner, Group))

Unlink ==
    \E p \in Parents, name \in OldNames, free_inode_data \in BOOLEAN :
        Step("unlink", <<p, name, free_inode_data>>, unlink(Begin, p, name, free_inode_data))

Rmdir ==
    \E p \in Parents, name \in {NameD, NameN, NameF} :
        Step("rmdir", <<p, name>>, rmdir(Begin, p, name))

Rename ==
    \E p \in Parents, name \in {NameF, NameD, NameU, NameN}, np \in Parents, new_name \in {NameD, NameN} :
        Step("rename", <<p, name, np, new_name>>, rename(Begin, p, name, np, new_name))

Link ==
    \E p \in Parents, target \in Files \cup {InoD}, name \in NewNames :
        Step("link", <<p, target, name>>, link(Begin, p, target, name))

Truncate ==
    \E i \in Files \cup {FirstFreeIno}, new_size \in Sizes :
        Step("truncate", <<i, new_size>>, truncate(Begin, i, new_size))

Write ==
    \E i \in Files \cup {FirstFreeIno}, file_offset \in Offsets, buf \in Bufs :
        Step("write", <<i, file_offset, buf>>, write(Begin, i, file_offset, buf))

Read ==
    \E i \in Files \cup {FirstFreeIno}, file_offset \in {0, 5}, len \in ReadLens :
        Step("read", <<i, file_offset, len>>, read(Begin, i, file_offset, len))

\* every operation
Next == Create \/ CreateDir \/ Unlink \/ Rmdir \/ Rename \/ Link \/ Truncate \/ Write \/ Read

Spec == InitNames /\ [][Next]_vars

\* file contents only
NextFile == Truncate \/ Write \/ Read

SpecFile == Init /\ [][NextFile]_vars

(***************************************************************************)
(* Volumes the engine has worked on.  A session is a list of calls made in *)
(* order, each on the engine the call before left; the engine it leaves is *)
(* one the program can be in when every call of the list returned Ok.      *)
(* Directory /b (inode 41) is the directory of the sessions : its records  *)
(* after a session are records this build wrote.                           *)
(***************************************************************************)
\* a name of FILENAME_MAX bytes, each of them the byte c
LongName(c) == [i \in 1..FILENAME_MAX |-> c]

Long1 == LongName(49)
Long2 == LongName(50)
Long3 == LongName(51)
Long4 == LongName(52)

Op(op, args) == [op |-> op, args |-> args]

\* the call c of the inode-level interface on the engine st
Call(st, c) ==
    CASE c.op = "create" -> create(st, c.args[1], c.args[2], Timestamp, FileMode, Owner, Group)
      [] c.op = "create_dir" -> create_dir(st, c.args[1], c.args[2], Timestamp, DirPerm, Owner, Group)
      [] c.op = "link" -> link(st, c.args[1], c.args[2], c.args[3])
      [] c.op = "truncate" -> truncate(st, c.args[1], c.args[2])
      [] c.op = "write" -> write(st, c.args[1], c.args[2], c.args[3])

\* the engine after the calls of a list; tag is "ok" when each returned Ok
RECURSIVE After(_, _)
After(st, calls) ==
    IF calls = <<>> THEN [tag |-> "ok", st |-> st]
    ELSE With([r \in {Call([st EXCEPT !.allocd = <<>>, !.freed = <<>>], Head(calls))} |->
             IF r.tag # "ok" THEN [tag |-> r.tag, st |-> st]
             ELSE After(r.st, Tail(calls))])

\* the engines the session leaves, started on each engine of S
Worked(S, calls) ==
    {[r.st EXCEPT !.allocd = <<>>, !.freed = <<>>] :
        r \in {x \in {After(st, calls) : st \in S} : x.tag = "ok"}}

\* the engine mounted on the volume of Image, in each build and each order
\* of the fields of a directory entry
Engines == Laid(Built(new))

\* three names of 255 bytes are entered in /b, which leaves less than 255
\* bytes in its block
Fill ==
    <<Op("link", <<InoB, InoG, Long1>>), Op("link", <<InoB, InoG, Long2>>),
      Op("link", <<InoB, InoG, Long3>>)>>

\* the file /a/f is emptied : its block, block 9 of group 0, is free
FreeOne == <<Op("truncate", <<InoF, 0>>)>>

\* Init of a specification that starts on the volume of Image or on the
\* volume a session left
Started(S) ==
    /\ fs \in S
    /\ pre = fs
    /\ last = NoCall
    /\ prev = NoCall
    /\ nops = 0
    /\ file = NoFiles
    /\ lock = FALSE

\* calls with a name of 255 bytes in /b
CreateLong ==
    Step("create", <<Long4, InoB>>, create(Begin, Long4, InoB, Timestamp, FileMode, Owner, Group))

LinkLong ==
    \E target \in {InoG, FirstFreeIno} :
        Step("link", <<InoB, target, Long4>>, link(Begin, InoB, target, Long4))

UnlinkLong ==
    \E free_inode_data \in BOOLEAN :
        Step("unlink", <<InoB, Long4, free_inode_data>>, unlink(Begin, InoB, Long4, free_inode_data))

(***************************************************************************)
(* What the volume really holds, read from the device at the places the    *)
(* geometry fixes, with a bit test that is true exactly when the bit is    *)
(* set.                                                                    *)
(***************************************************************************)
TrueBit(val, idx) == (val \div Pow2(idx)) % 2 = 1

RawInode(disk, n) == Slice(disk, InodeAddrOf(n), InodeStructSize)

InodeBitSet(disk, n) ==
    With([g \in {(n - 1) \div InodesPerGrp} |->
        With([idx \in {(n - 1) % InodesPerGrp} |->
        TrueBit(Get(disk, BlockAddr(GrpInodeBitmap(g)) + (idx \div 8)), idx % 8)])])

AllInodes == 1..(NbrBlockGrp * InodesPerGrp)

\* s_first_ino of a revision 0 volume : inodes 1 .. 10 are reserved
FirstNonReserved == 11

RawDesc(disk, g) == Slice(disk, DescAddr(g), DescSize)

RECURSIVE SumFreeBlocks(_, _)
SumFreeBlocks(disk, g) ==
    IF g >= NbrBlockGrp THEN 0
    ELSE nbr_free_blocks(RawDesc(disk, g)) + SumFreeBlocks(disk, g + 1)

RECURSIVE SumFreeInodes(_, _)
SumFreeInodes(disk, g) ==
    IF g >= NbrBlockGrp THEN 0
    ELSE nbr_free_inodes(RawDesc(disk, g)) + SumFreeInodes(disk, g + 1)

\* superblock, descriptor table, bitmaps and inode tables
MetaBlocks ==
    {1, 2} \cup UNION {{GrpBlockBitmap(g), GrpInodeBitmap(g)}
                       \cup (GrpInodeTable(g)..(GrpInodeTable(g) + InodeTableBlocks - 1)) : g \in Groups}

\* the non-null pointer slots of the pointer block b : <<slot index, block>>
SlotsOf(disk, b) ==
    {<<k, U32(disk, BlockAddr(b) + k * PtrSize)>> :
        k \in {(a - BlockAddr(b)) \div PtrSize :
                   a \in {x \in DOMAIN disk : x >= BlockAddr(b) /\ x < BlockAddr(b) + BlockSize}}}

\* the references below a pointer block, depth levels down : <<path, block>>
RECURSIVE RefsBelow(_, _, _, _)
RefsBelow(disk, b, depth, path) ==
    IF depth = 0 \/ b = 0 THEN {}
    ELSE UNION {{<<Append(path, s[1]), s[2]>>}
                \cup RefsBelow(disk, s[2], depth - 1, Append(path, s[1])) : s \in SlotsOf(disk, b)}

\* every block the block map of inode n references, with the slot it is in
RefsOfInode(disk, n) ==
    With([ino \in {RawInode(disk, n)} |->
        LET root(field) == IF U32(ino, field) = 0 THEN {} ELSE {<<n, <<field>>, U32(ino, field)>>} IN
        LET below(field, depth) ==
            {<<n, r[1], r[2]>> : r \in RefsBelow(disk, U32(ino, field), depth, <<field>>)} IN
        UNION {root(DirectOff(k)) : k \in 0..(NbrDirect - 1)}
        \cup root(SinglyOff) \cup below(SinglyOff, 1)
        \cup root(DoublyOff) \cup below(DoublyOff, 2)
        \cup root(TriplyOff) \cup below(TriplyOff, 3)])

\* every reference <<inode, slot, block>> held by an allocated inode
AllRefs(disk) == UNION {RefsOfInode(disk, n) : n \in {m \in AllInodes : InodeBitSet(disk, m)}}

Returned == last.tag \in {"ok", "err"}

\* C1 : after any sequence of operations the descriptors' free-block counts
\* sum to the superblock's free-block count, and the free-inode counts to
\* its free-inode count.
C1_FreeCountsAgree ==
    Returned =>
        /\ SumFreeBlocks(fs.disk, 0) = fs.fb
        /\ SumFreeInodes(fs.disk, 0) = fs.fi
        /\ U32(fs.disk, SuperblockAddr + 12) = fs.fb
        /\ U32(fs.disk, SuperblockAddr + 16) = fs.fi

\* C2 : alloc_block never returns a block already in use : a returned block
\* is not metadata and was referenced by no inode, and in every state each
\* referenced block is referenced from exactly one slot of one allocated
\* inode and is not a metadata block.
C2_AllocFresh ==
    Returned =>
        /\ \A k \in 1..Len(fs.allocd) :
               /\ fs.allocd[k] \notin MetaBlocks
               /\ \A r \in AllRefs(pre.disk) : r[3] # fs.allocd[k]
               /\ \A j \in 1..(k - 1) : fs.allocd[j] # fs.allocd[k]
        /\ \A r \in AllRefs(fs.disk) :
               /\ r[3] \notin MetaBlocks
               /\ \A q \in AllRefs(fs.disk) : q[3] = r[3] => q = r

\* the block-aligned offsets below size
BlockOffsets(size) ==
    IF size = 0 THEN {} ELSE {k * BlockSize : k \in 0..((size - 1) \div BlockSize)}

\* inode n is one the engine can be called on : get_inode returns it
Usable(st, n) == get_inode(st, n).tag = "ok"

UsableFile(st, n) == Usable(st, n) /\ is_a_regular_file(get_inode(st, n).val.inode)

\* C3 : after a write or a truncate of an allocated inode (truncate to a
\* size that is not a multiple of the block size and to the current size
\* included) every block-aligned offset below the size resolves through
\* inode_data to a non-zero, block-aligned device address.
C3_OffsetsResolve ==
    (/\ Returned
     /\ last.op \in {"write", "truncate"}
     /\ UsableFile(pre, last.args[1]))
    => With([ino \in {RawInode(fs.disk, last.args[1])} |->
           \A o \in BlockOffsets(get_size(ino)) :
               With([r \in {inode_data(fs, ino, o)} |->
                   r.tag = "ok" /\ r.val # Addr(0) /\ r.val[2] % BlockSize = 0])])

\* C4 : round trip : write(i, 0, b) on a regular file followed by
\* read(i, 0, len(b)) returns len(b) and yields exactly the bytes b.
C4_RoundTrip ==
    (/\ last.op = "read"
     /\ prev.op = "write"
     /\ prev.tag = "ok"
     /\ prev.args[1] = last.args[1]
     /\ prev.args[2] = 0
     /\ last.args[2] = 0
     /\ prev.args[3].len > 0
     /\ last.args[3] = prev.args[3].len
     /\ UsableFile(pre, last.args[1]))
    => /\ last.tag = "ok"
       /\ last.val.n = prev.args[3].len
       /\ last.val.data = prev.args[3].bytes

\* C5 : truncate(i, 0) on a regular file completes without error and frees
\* every data block and every indirection block of the inode exactly once,
\* so that the superblock free-block count grows by the number of blocks
\* the file held.
C5_TruncateToZero ==
    (/\ last.op = "truncate"
     /\ last.args[2] = 0
     /\ UsableFile(pre, last.args[1]))
    => With([owned \in {{r[3] : r \in RefsOfInode(pre.disk, last.args[1])}} |->
           /\ last.tag = "ok"
           /\ {fs.freed[k] : k \in 1..Len(fs.freed)} = owned
           /\ Len(fs.freed) = Cardinality(owned)
           /\ fs.fb = pre.fb + Cardinality(owned)
           /\ RefsOfInode(fs.disk, last.args[1]) = {}])

(***************************************************************************)
(* The directory tree as the engine reads it from the device : the records *)
(* of a directory are read as EntryIter reads them, in the order of fields *)
(* of the build.                                                           *)
(***************************************************************************)
\* the named entries of directory d, in chain order
DirItems(st, d) == entries_from(st, RawInode(st.disk, d), 0, <<>>).items

IsDirInode(st, n) ==
    n \in AllInodes /\ InodeBitSet(st.disk, n) /\ is_a_directory(RawInode(st.disk, n))

\* positions in the chain of d of the entries, other than . and .., that
\* name a directory
SubdirEntries(st, d) ==
    {k \in 1..Len(DirItems(st, d)) :
        /\ DE_get_filename(DirItems(st, d)[k].e) \notin {Dot, DotDot}
        /\ IsDirInode(st, DE_get_inode(DirItems(st, d)[k].e))}

Children(st, d) == {DE_get_inode(DirItems(st, d)[k].e) : k \in SubdirEntries(st, d)}

\* the allocated directory inodes
Dirs(st) == {n \in AllInodes : IsDirInode(st, n)}

\* the inode the entry called name in d references, 0 when there is none
Target(st, d, name) ==
    With([hits \in {{k \in 1..Len(DirItems(st, d)) : DE_get_filename(DirItems(st, d)[k].e) = name}} |->
        IF hits = {} THEN 0 ELSE DE_get_inode(DirItems(st, d)[SetMin(hits)].e)])

\* every record of the chain of a directory, unused ones included :
\* recs = <<[off, len]>>, end = the offset the walk stops at
RECURSIVE RawChain(_, _, _, _)
RawChain(st, inode, off, acc) ==
    With([d \in {find_entry(st, inode, off)} |->
        IF ~d.some THEN [recs |-> acc, end |-> off]
        ELSE IF DE_get_size(d.e) = 0
        THEN [recs |-> Append(acc, [off |-> off, len |-> 0]), end |-> off]
        ELSE RawChain(st, inode, off + DE_get_size(d.e),
                      Append(acc, [off |-> off, len |-> DE_get_size(d.e)]))])

RECURSIVE BlockSum(_, _, _)
BlockSum(recs, b, k) ==
    IF k > Len(recs) THEN 0
    ELSE (IF recs[k].off \div BlockSize = b THEN recs[k].len ELSE 0) + BlockSum(recs, b, k + 1)

ChainOk(st, d) ==
    With([ino \in {RawInode(st.disk, d)} |->
        With([ch \in {RawChain(st, ino, 0, <<>>)} |->
        /\ ch.end = get_size(ino)
        /\ \A k \in 1..Len(ch.recs) :
               /\ ch.recs[k].len > 0
               /\ ch.recs[k].off \div BlockSize = (ch.recs[k].off + ch.recs[k].len - 1) \div BlockSize
        /\ \A b \in 0..(to_block(st, get_size(ino)) - 1) : BlockSum(ch.recs, b, 1) = BlockSize])])

NamesIn(st, d, name) ==
    Cardinality({k \in 1..Len(DirItems(st, d)) : DE_get_filename(DirItems(st, d)[k].e) = name})

\* C6 : after successful creates and unlinks in a directory a lookup there
\* finds every name created and not unlinked since, with the inode number
\* create returned, and answers NoEntry for every other name.
C6_LookupAfterCreateUnlink ==
    /\ (last.op = "create" /\ last.tag = "ok" /\ NamesIn(pre, last.args[2], last.args[1]) = 0)
       => With([r \in {find_entry_in_inode(fs, last.args[2], last.args[1])} |->
              r.tag = "ok" /\ DE_get_inode(r.val.e) = last.val.nbr])
    /\ (last.op = "unlink" /\ last.tag = "ok" /\ NamesIn(pre, last.args[1], last.args[2]) = 1)
       => With([r \in {find_entry_in_inode(fs, last.args[1], last.args[2])} |->
              r.tag = "err" /\ r.val = "NoEntry"])
    /\ (last.op \in {"create", "unlink"} /\ last.tag = "ok")
       => \A name \in (OldNames \cup NewNames) \ {last.args[IF last.op = "create" THEN 1 ELSE 2]} :
              With([d \in {last.args[IF last.op = "create" THEN 2 ELSE 1]} |->
                  With([a \in {find_entry_in_inode(pre, d, name)} |->
                  With([b \in {find_entry_in_inode(fs, d, name)} |->
                  /\ a.tag = b.tag
                  /\ a.tag = "ok" => DE_get_inode(a.val.e) = DE_get_inode(b.val.e)
                  /\ a.tag # "ok" => a.val = b.val])])])

\* C7 : the record lengths chained in each block of a directory sum to
\* block_size and no record crosses a block boundary, after any sequence of
\* push_entry and delete_entry : a call that returns Ok keeps this of every
\* directory it was true of before the call, and it is true of a directory
\* the call made.
C7_RecordsFillBlocks ==
    (Returned /\ last.tag = "ok") =>
        \A d \in Dirs(fs) : (d \in Dirs(pre) => ChainOk(pre, d)) => ChainOk(fs, d)

\* the hard-link count of directory d is 2 plus the number of
\* subdirectories entered in it
LinksOk(st, d) ==
    nbr_hard_links(RawInode(st.disk, d)) = 2 + Cardinality(SubdirEntries(st, d))

\* C8 : the hard-link count of every directory is 2 plus the number of
\* subdirectories entered in it, after any sequence of create_dir, rmdir
\* and rename : a call that returns Ok keeps this of every directory it was
\* true of before the call, and it is true of a directory the call made.
C8_DirLinkCount ==
    (Returned /\ last.tag = "ok") =>
        \A d \in Dirs(fs) : (d \in Dirs(pre) => LinksOk(pre, d)) => LinksOk(fs, d)

\* directory c holds the entries . and .., . references c and .. references
\* every directory that holds an entry of c
DotsOk(st, c) ==
    /\ Target(st, c, Dot) = c
    /\ Target(st, c, DotDot) # 0
    /\ \A d \in Dirs(st) : c \in Children(st, d) => Target(st, c, DotDot) = d

\* C9 : every directory holds the entries . and .., . references the
\* directory itself and .. references the directory that holds its entry,
\* after any sequence of create_dir and rename : a call that returns Ok
\* keeps this of every directory it was true of before the call, and it is
\* true of a directory the call made.
C9_DotAndDotDot ==
    (Returned /\ last.tag = "ok") =>
        \A c \in Dirs(fs) : (c \in Dirs(pre) => DotsOk(pre, c)) => DotsOk(fs, c)

\* C10 : after any sequence of create, link, unlink and rmdir every inode
\* whose bitmap bit is set, the reserved inodes apart, has a hard-link count
\* of at least 1.
C10_AllocatedHaveLinks ==
    Returned =>
        \A n \in AllInodes :
            (n >= FirstNonReserved /\ InodeBitSet(fs.disk, n))
            => nbr_hard_links(RawInode(fs.disk, n)) >= 1

\* create and unlink only, on the volume of Image and on the volume where
\* /b is filled and a block of group 0 is free
InitDir == Started(Engines \cup Worked(Engines, FreeOne \o Fill))

NextDir == Create \/ Unlink \/ CreateLong

SpecDir == InitDir /\ [][NextDir]_vars

\* names are entered and removed, on the volume of Image and on the volume
\* where /b has two blocks : three names of 255 bytes in the first, a
\* fourth and the name n in the second
InitFill ==
    Started(Engines \cup Worked(Engines, Fill \o <<Op("link", <<InoB, InoG, Long4>>),
                                                    Op("link", <<InoB, InoG, NameN>>)>>))

NextFill == Link \/ Unlink \/ UnlinkLong

SpecFill == InitFill /\ [][NextFill]_vars

\* the directory tree only, on the volume of Image and on the volume where
\* /b holds the names d, of the file /a/f, and n, of the file /a/g
InitTree ==
    Started(Engines \cup Worked(Engines, <<Op("link", <<InoB, InoF, NameD>>),
                                           Op("link", <<InoB, InoG, NameN>>)>>))

NextTree == CreateDir \/ Rmdir \/ Rename

SpecTree == InitTree /\ [][NextTree]_vars

\* a directory of /b is moved into /a/d
RenameInto ==
    \E name \in NewNames :
        Step("rename", <<InoB, name, InoD, name>>, rename(Begin, InoB, name, InoD, name))

\* create_dir and rename only
NextMove == CreateDir \/ Rename \/ RenameInto

SpecMove == InitNames /\ [][NextMove]_vars

\* link counts of files and directories
NextLinks == Create \/ Link \/ Unlink \/ Rmdir

SpecLinks == InitNames /\ [][NextLinks]_vars

\* the blocks the block map of inode n holds, one per slot
BlocksHeld(disk, n) == Cardinality(RefsOfInode(disk, n))

\* C11 : after a write or a truncate of a regular file (a write that stops
\* part-way included) the inode's disk sector count times 512 equals the
\* block size times the number of data and indirection blocks the inode
\* holds.
C11_SectorCount ==
    (/\ Returned
     /\ last.op \in {"write", "truncate"}
     /\ UsableFile(pre, last.args[1]))
    => nbr_disk_sectors(RawInode(fs.disk, last.args[1])) * SectorSize
           = BlockSize * BlocksHeld(fs.disk, last.args[1])

BlockBitSet(disk, b) ==
    With([g \in {(b - 1) \div BlocksPerGrp} |->
        With([idx \in {(b - 1) % BlocksPerGrp} |->
        TrueBit(Get(disk, BlockAddr(GrpBlockBitmap(g)) + (idx \div 8)), idx % 8)])])

\* the entries <<directory, position>> that reference inode n
NamesOf(st, n) ==
    UNION {{<<d, k>> : k \in {j \in 1..Len(DirItems(st, d)) :
                                  /\ DE_get_inode(DirItems(st, d)[j].e) = n
                                  /\ DE_get_filename(DirItems(st, d)[j].e) \notin {Dot, DotDot}}}
           : d \in Dirs(st)}

\* the bytes of the file n, as read returns them from offset 0
FileBytes(st, n) ==
    With([r \in {read(st, n, 0, get_size(RawInode(st.disk, n)))} |->
        [tag |-> r.tag, val |-> r.val]])

\* C12 : for a regular file with one name p, a successful link to a new
\* name q makes the link count 2, as the device holds it and as get_inode
\* returns it, and q reference the file; an unlink of p that follows
\* succeeds, leaves the link count at 1, the inode and its blocks
\* allocated, q referencing the same inode and the bytes read unchanged.
C12_LinkThenUnlink ==
    /\ (/\ last.op = "link"
        /\ last.tag = "ok"
        /\ UsableFile(pre, last.args[2])
        /\ nbr_hard_links(RawInode(pre.disk, last.args[2])) = 1
        /\ Cardinality(NamesOf(pre, last.args[2])) = 1
        /\ NamesIn(pre, last.args[1], last.args[3]) = 0)
       => /\ Usable(fs, last.args[2])
          /\ nbr_hard_links(get_inode(fs, last.args[2]).val.inode) = 2
          /\ nbr_hard_links(RawInode(fs.disk, last.args[2])) = 2
          /\ Target(fs, last.args[1], last.args[3]) = last.args[2]
          /\ Cardinality(NamesOf(fs, last.args[2])) = 2
    /\ (/\ last.op = "unlink"
        /\ prev.op = "link"
        /\ prev.tag = "ok"
        /\ Target(pre, last.args[1], last.args[2]) = prev.args[2]
        /\ <<last.args[1], last.args[2]>> # <<prev.args[1], prev.args[3]>>
        /\ nbr_hard_links(RawInode(pre.disk, prev.args[2])) = 2
        /\ Cardinality(NamesOf(pre, prev.args[2])) = 2
        /\ NamesIn(pre, prev.args[1], prev.args[3]) = 1)
       => With([n \in {prev.args[2]} |->
              /\ last.tag = "ok"
              /\ nbr_hard_links(RawInode(fs.disk, n)) = 1
              /\ InodeBitSet(fs.disk, n)
              /\ RefsOfInode(fs.disk, n) = RefsOfInode(pre.disk, n)
              /\ \A r \in RefsOfInode(fs.disk, n) : BlockBitSet(fs.disk, r[3])
              /\ Target(fs, prev.args[1], prev.args[3]) = n
              /\ RawInode(fs.disk, n) = SetU16(RawInode(pre.disk, n), 26, 1)
              /\ FileBytes(fs, n).tag = "ok"
              /\ FileBytes(fs, n) = FileBytes(pre, n)])

\* a regular file gets a second name and loses one, on the volume of Image
\* and on the volume where the file n is created in /b (inode 17), a block
\* of group 0 is free and /b is filled
InitAlias ==
    Started(Engines \cup Worked(Engines, <<Op("create", <<NameN, InoB>>)>> \o FreeOne \o Fill))

NextAlias == Link \/ Unlink \/ LinkLong

SpecAlias == InitAlias /\ [][NextAlias]_vars

\* the contents of the blocks the block map of inode n references in st0,
\* as st holds them
BlocksOf(st0, st, n) ==
    {<<r[2], read_buffer(st, to_addr(st, r[3]), st.block_size)>> : r \in RefsOfInode(st0.disk, n)}

\* C13 : a successful rename removes old_name from old_parent and makes
\* new_name in new_parent reference the same inode, leaving the inode
\* record and the data unchanged.
C13_Rename ==
    (last.op = "rename" /\ last.tag = "ok")
    => With([n \in {Target(pre, last.args[1], last.args[2])} |->
           /\ Target(fs, last.args[1], last.args[2]) = 0
           /\ Target(fs, last.args[3], last.args[4]) = n
           /\ RawInode(fs.disk, n) = RawInode(pre.disk, n)
           /\ BlocksOf(pre, fs, n) = BlocksOf(pre, pre, n)])

\* the names entered in directory d
NamesHeld(st, d) == {DE_get_filename(DirItems(st, d)[k].e) : k \in 1..Len(DirItems(st, d))}

\* a file is created in the subdirectory /a/d
CreateIn ==
    \E name \in NewNames :
        Step("create", <<name, InoD>>, create(Begin, name, InoD, Timestamp, FileMode, Owner, Group))

\* C14 : rmdir on a directory that holds an entry other than . and ..
\* returns an error and leaves the device and the free counts as they were;
\* an rmdir that succeeds was called on a directory holding . and .. only.
C14_RmdirNonEmpty ==
    (/\ last.op = "rmdir"
     /\ IsDirInode(pre, Target(pre, last.args[1], last.args[2])))
    => With([t \in {Target(pre, last.args[1], last.args[2])} |->
           /\ NamesHeld(pre, t) # {Dot, DotDot}
              => /\ last.tag = "err"
                 /\ fs.disk = pre.disk
                 /\ fs.fb = pre.fb
                 /\ fs.fi = pre.fi
           /\ last.tag = "ok" => NamesHeld(pre, t) = {Dot, DotDot}])

\* directories are filled and removed, on the volume of Image and on the
\* volume where the directory n is made in /b (inode 17) and the name m, of
\* the file /a/g, is entered in it
InitRmdir ==
    Started(Engines \cup Worked(Engines, <<Op("create_dir", <<InoB, NameN>>),
                                           Op("link", <<FirstFreeIno, InoG, NameM>>)>>))

NextRmdir == Create \/ CreateIn \/ CreateDir \/ Rmdir

SpecRmdir == InitRmdir /\ [][NextRmdir]_vars

\* unlink of a name of the root directory
UnlinkRoot ==
    \E name \in {NameA, NameB}, free_inode_data \in BOOLEAN :
        Step("unlink", <<RootIno, name, free_inode_data>>, unlink(Begin, RootIno, name, free_inode_data))

\* C15 : unlink on a name whose target is a directory returns IsDirectory
\* and changes nothing : the device (entry, link count, bitmaps, blocks) and
\* the free counts are as before the call.
C15_UnlinkDirectory ==
    (/\ last.op = "unlink"
     /\ IsDirInode(pre, Target(pre, last.args[1], last.args[2])))
    => /\ last.tag = "err"
       /\ last.val = "IsDirectory"
       /\ fs.disk = pre.disk
       /\ fs.fb = pre.fb
       /\ fs.fi = pre.fi

\* directories are made and unlink is called on them
NextIsDir == CreateDir \/ Unlink \/ UnlinkRoot

SpecIsDir == InitNames /\ [][NextIsDir]_vars

\* a name of len bytes, its byte at position slash_at (if any) a '/'
NameOf(len, slash_at) == [i \in 1..len |-> IF i = slash_at THEN Slash ELSE 97]

\* names at the limits of length, with and without a '/'
LimitNames ==
    {NameOf(len, slash_at) : len \in {0, 1, 2, FILENAME_MAX, FILENAME_MAX + 1},
                             slash_at \in {0, 1, 2, FILENAME_MAX, FILENAME_MAX + 1}}

\* a directory entry is built, as create, create_dir, symlink and link do
NewEntry ==
    \E name \in LimitNames :
        Step("entry_new", <<name, DT_RegularFile, FirstFreeIno>>,
             DirectoryEntry_new(Begin, name, DT_RegularFile, FirstFreeIno))

NextEntry == NewEntry

SpecEntry == Init /\ [][NextEntry]_vars

\* C16 : building a directory entry accepts every name of 1 to 255 bytes
\* without '/', the entry carrying the name, its length, the type and the
\* inode; it answers NameTooLong for a name of more than 255 bytes,
\* StringEmpty for the empty name and IllegalCharacter for a name of 1 to 255
\* bytes that holds a '/'.
C16_NameRules ==
    (last.op = "entry_new") =>
        With([name \in {last.args[1]} |->
            IF Len(name) > FILENAME_MAX THEN last.tag = "err" /\ last.val = "NameTooLong"
            ELSE IF Len(name) = 0 THEN last.tag = "err" /\ last.val = "StringEmpty"
            ELSE IF \E i \in 1..Len(name) : name[i] = Slash
            THEN last.tag = "err" /\ last.val = "IllegalCharacter"
            ELSE /\ last.tag = "ok"
                 /\ DE_get_filename(last.val) = name
                 /\ DE_name_length(last.val) = Len(name)
                 /\ DE_type(last.val) = last.args[2]
                 /\ DE_get_inode(last.val) = last.args[3]])

\* a name of 255 bytes was accepted
C16_Witness ==
    /\ last.op = "entry_new"
    /\ Len(last.args[1]) = FILENAME_MAX
    /\ last.tag = "ok"
    /\ prev.op = "entry_new"
    /\ prev.tag = "err"

\* block offsets at the limits of the four ranges of the block map
LimitBlocks ==
    {0, OffsetSingly, OffsetDoubly(PtrsPerBlock), OffsetTriply(PtrsPerBlock), OffsetEnd(PtrsPerBlock) - 1, OffsetEnd(PtrsPerBlock), OffsetEnd(PtrsPerBlock) + 1}

\* the three traversals of the block map, on the inode get_inode returns
Resolve ==
    \E i \in Files, b \in LimitBlocks :
        Step("inode_data", <<i, b>>,
             With([rg \in {get_inode(Begin, i)} |->
                 IF rg.tag # "ok" THEN rg ELSE inode_data_blk(Begin, rg.val.inode, b, 0)]))

ResolveAlloc ==
    \E i \in Files, b \in LimitBlocks :
        Step("inode_data_may_alloc", <<i, b>>,
             With([rg \in {get_inode(Begin, i)} |->
                 IF rg.tag # "ok" THEN rg
                 ELSE Plain(inode_data_may_alloc_blk(Begin, rg.val.inode, rg.val.addr, b, 0))]))

FreeAt ==
    \E i \in Files, b \in LimitBlocks :
        Step("inode_free_block", <<i, b>>,
             With([rg \in {get_inode(Begin, i)} |->
                 IF rg.tag # "ok" THEN rg
                 ELSE Plain(inode_free_block(Begin, rg.val.inode, rg.val.addr, b))]))

NextMap == Resolve \/ ResolveAlloc \/ FreeAt

SpecMap == Init /\ [][NextMap]_vars

\* C17 : with P = block_size / 4 each traversal of the block map answers
\* FileTooBig exactly when the block offset is at least 12 + P + P^2 + P^3,
\* and then allocates nothing and writes nothing to the device.
C17_FileTooBig ==
    (/\ last.op \in {"inode_data", "inode_data_may_alloc", "inode_free_block"}
     /\ Usable(pre, last.args[1]))
    => IF last.args[2] >= NbrDirect + PtrsPerBlock + PtrsPerBlock * PtrsPerBlock
                          + PtrsPerBlock * PtrsPerBlock * PtrsPerBlock
       THEN /\ last.tag = "err"
            /\ last.val = "FileTooBig"
            /\ fs.disk = pre.disk
            /\ fs.fb = pre.fb
            /\ fs.fi = pre.fi
            /\ fs.allocd = <<>>
            /\ fs.freed = <<>>
       ELSE ~(last.tag = "err" /\ last.val = "FileTooBig")

\* the last block offset of the triple range was resolved with allocation,
\* and the first one past it was refused
C17_Witness ==
    /\ prev.op = "inode_data_may_alloc"
    /\ prev.args[2] = OffsetEnd(PtrsPerBlock) - 1
    /\ prev.tag = "ok"
    /\ last.op = "inode_data_may_alloc"
    /\ last.args[2] = OffsetEnd(PtrsPerBlock)
    /\ last.tag = "err"
    /\ last.val = "FileTooBig"


\* C18 : a write of n >= 1 bytes to a regular file at an offset greater
\* than the file's size succeeds, returns n, sets the size to offset + n,
\* and a read of n bytes at that offset returns the bytes written.
C18_WritePastEnd ==
    (/\ last.op = "write"
     /\ UsableFile(pre, last.args[1])
     /\ last.args[3].len >= 1
     /\ last.args[2] > get_size(RawInode(pre.disk, last.args[1])))
    => /\ last.tag = "ok"
       /\ last.val.n = last.args[3].len
       /\ last.val.off = last.args[2] + last.args[3].len
       /\ get_size(RawInode(fs.disk, last.args[1])) = last.args[2] + last.args[3].len
       /\ With([r \in {read(fs, last.args[1], last.args[2], last.args[3].len)} |->
              /\ r.tag = "ok"
              /\ r.val.n = last.args[3].len
              /\ r.val.data = last.args[3].bytes])


\* the size of inode n as the device holds it
SizeOf(st, n) == get_size(RawInode(st.disk, n))

\* C19 : a write appending to a regular file that stops on OutOfSpace
\* after k > 0 bytes were moved (the size grew by k) returns Ok with the
\* count k, and the offset returned has advanced by k.
C19_ShortCount ==
    (/\ Returned
     /\ last.op = "write"
     /\ UsableFile(pre, last.args[1])
     /\ last.args[2] = SizeOf(pre, last.args[1])
     /\ last.args[3].len >= 1
     /\ SizeOf(fs, last.args[1]) > last.args[2]
     /\ SizeOf(fs, last.args[1]) < last.args[2] + last.args[3].len
     /\ last.tag = "err" => last.val = "OutOfSpace")
    => /\ last.tag = "ok"
       /\ last.val.n = SizeOf(fs, last.args[1]) - last.args[2]
       /\ last.val.off = SizeOf(fs, last.args[1])


\* byte k of the file n, through the direct slots of the inode as the
\* device holds it (k below NbrDirect * BlockSize); an unmapped block
\* holds zeros
ByteAt(disk, n, k) ==
    With([b \in {U32(RawInode(disk, n), DirectOff(k \div BlockSize))} |->
        IF b = 0 THEN 0 ELSE Get(disk, BlockAddr(b) + (k % BlockSize))])

\* the len bytes of the file n from offset, re-based at 0
BytesAt(disk, n, offset, len) ==
    [o \in {k \in 0..(len - 1) : ByteAt(disk, n, offset + k) # 0} |-> ByteAt(disk, n, offset + o)]

\* C20 : read(i, offset, buf) on a regular file (held by direct blocks)
\* returns n = min(len(buf), size - offset) when offset < size and 0 when
\* offset >= size, advances the offset by n, yields the file's bytes
\* offset .. offset + n, and leaves the device and the counts unchanged.
C20_Read ==
    (/\ last.op = "read"
     /\ UsableFile(pre, last.args[1])
     /\ SizeOf(pre, last.args[1]) <= NbrDirect * BlockSize)
    => With([n \in {IF last.args[2] < SizeOf(pre, last.args[1])
                    THEN Min(last.args[3], SizeOf(pre, last.args[1]) - last.args[2])
                    ELSE 0} |->
           /\ last.tag = "ok"
           /\ last.val.n = n
           /\ last.val.off = last.args[2] + n
           /\ last.val.data = BytesAt(pre.disk, last.args[1], last.args[2], n)
           /\ fs.disk = pre.disk
           /\ fs.fb = pre.fb
           /\ fs.fi = pre.fi])


(***************************************************************************)
(* The allocators, called on volumes that are full up to a group.          *)
(***************************************************************************)
\* the volume with every block of the groups below kb and every inode of
\* the groups below ki taken (bitmap bits set, descriptor count zero);
\* when tight, group kb has one free block and group ki one free inode,
\* the first of the group
RECURSIVE FullBelow(_, _, _, _, _)
FullBelow(disk, g, kb, ki, tight) ==
    IF g >= NbrBlockGrp THEN disk
    ELSE
    With([d1 \in {IF g < kb \/ (g = kb /\ tight)
                  THEN Splice(Splice(disk, BlockAddr(GrpBlockBitmap(g)), BlocksPerGrp \div 8,
                                     OfSeq(<<IF g < kb THEN 255 ELSE 254, 255>>)),
                              DescAddr(g) + 12, 2,
                              LE(IF g < kb THEN 0 ELSE 1, 2))
                  ELSE disk} |->
        With([d2 \in {IF g < ki \/ (g = ki /\ tight)
                      THEN Splice(Splice(d1, BlockAddr(GrpInodeBitmap(g)), InodesPerGrp \div 8,
                                         OfSeq(<<IF g < ki THEN 255 ELSE 254, 255>>)),
                                  DescAddr(g) + 14, 2,
                                  LE(IF g < ki THEN 0 ELSE 1, 2))
                      ELSE d1} |->
        FullBelow(d2, g + 1, kb, ki, tight)])])

\* Ext2Filesystem::new on that volume
VolumeFull(kb, ki, tight) ==
    With([disk \in {FullBelow(Image, 0, kb, ki, tight)} |->
        write_superblock([new EXCEPT !.disk = disk,
                                     !.fb = SumFreeBlocks(disk, 0),
                                     !.fi = SumFreeInodes(disk, 0)])])

InitAlloc ==
    /\ fs \in UNION {Built(VolumeFull(kb, ki, tight)) :
                         kb \in 1..NbrBlockGrp, ki \in 1..NbrBlockGrp, tight \in BOOLEAN}
    /\ pre = fs
    /\ last = NoCall
    /\ prev = NoCall
    /\ nops = 0
    /\ file = NoFiles
    /\ lock = FALSE

\* self.alloc_block().ok_or(Errno::OutOfSpace)
AllocBlock ==
    Step("alloc_block", <<>>,
         With([r \in {alloc_block(Begin)} |->
             IF r.tag = "err" THEN Err(r.st, "OutOfSpace") ELSE r]))

\* self.alloc_inode().ok_or(Errno::OutOfSpace)
AllocInode ==
    Step("alloc_inode", <<>>,
         With([r \in {alloc_inode(Begin)} |->
             IF r.tag = "err" THEN Err(r.st, "OutOfSpace") ELSE r]))

NextAlloc == AllocBlock \/ AllocInode

SpecAlloc == InitAlloc /\ [][NextAlloc]_vars

\* the groups whose descriptor reports free blocks / free inodes
GroupsWithBlocks(disk) == {g \in Groups : nbr_free_blocks(RawDesc(disk, g)) > 0}

GroupsWithInodes(disk) == {g \in Groups : nbr_free_inodes(RawDesc(disk, g)) > 0}

\* the clear bits among the first count bits of the bitmap in block b
ClearBits(disk, b, count) ==
    {i \in 0..(count - 1) : ~TrueBit(Get(disk, BlockAddr(b) + (i \div 8)), i % 8)}

\* C21 : when a group has free capacity, alloc_block and alloc_inode
\* return g * per_group + i + 1, g the lowest-numbered group whose
\* descriptor reports free capacity and i the first clear bit of its
\* bitmap.
C21_FirstClearBit ==
    /\ (last.op = "alloc_block" /\ GroupsWithBlocks(pre.disk) # {})
       => With([g \in {SetMin(GroupsWithBlocks(pre.disk))} |->
              /\ last.tag = "ok"
              /\ ClearBits(pre.disk, GrpBlockBitmap(g), BlocksPerGrp) # {}
              /\ last.val = BlocksPerGrp * g
                            + SetMin(ClearBits(pre.disk, GrpBlockBitmap(g), BlocksPerGrp)) + 1])
    /\ (last.op = "alloc_inode" /\ GroupsWithInodes(pre.disk) # {})
       => With([g \in {SetMin(GroupsWithInodes(pre.disk))} |->
              /\ last.tag = "ok"
              /\ ClearBits(pre.disk, GrpInodeBitmap(g), InodesPerGrp) # {}
              /\ last.val = InodesPerGrp * g
                            + SetMin(ClearBits(pre.disk, GrpInodeBitmap(g), InodesPerGrp)) + 1])


\* C22 : alloc_block (alloc_inode) fails, with OutOfSpace, exactly when
\* every group descriptor reports zero free blocks (inodes), and a failed
\* allocation leaves the device and the superblock counts unchanged.
C22_OutOfSpace ==
    /\ last.op = "alloc_block"
       => /\ last.tag = IF GroupsWithBlocks(pre.disk) = {} THEN "err" ELSE "ok"
          /\ last.tag = "err" => /\ last.val = "OutOfSpace"
                                 /\ fs.disk = pre.disk
                                 /\ fs.fb = pre.fb
                                 /\ fs.fi = pre.fi
    /\ last.op = "alloc_inode"
       => /\ last.tag = IF GroupsWithInodes(pre.disk) = {} THEN "err" ELSE "ok"
          /\ last.tag = "err" => /\ last.val = "OutOfSpace"
                                 /\ fs.disk = pre.disk
                                 /\ fs.fb = pre.fb
                                 /\ fs.fi = pre.fi

\* the last free block is handed out, and the next allocation fails
C22_Witness ==
    /\ prev.op = "alloc_block"
    /\ prev.tag = "ok"
    /\ last.op = "alloc_block"
    /\ last.tag = "err"
    /\ GroupsWithBlocks(pre.disk) = {}


(***************************************************************************)
(* Symbolic links.                                                         *)
(***************************************************************************)
\* a target of len bytes
TargetOf(len) == [i \in 1..len |-> 97 + (i % 5)]

TargetLens == {1, FAST_SYMLINK_SIZE_MAX, FAST_SYMLINK_SIZE_MAX + 1}

Symlink ==
    \E p \in Parents, len \in TargetLens, name \in NewNames :
        Step("symlink", <<p, len, name>>, symlink(Begin, p, TargetOf(len), name, Timestamp))

\* a symbolic link with a name of 255 bytes in /b
SymlinkLong ==
    \E len \in TargetLens :
        Step("symlink", <<InoB, len, Long4>>, symlink(Begin, InoB, TargetOf(len), Long4, Timestamp))

\* symbolic links are made and unlinked, on the volume of Image and on the
\* volume where /b is filled
InitSym == Started(Engines \cup Worked(Engines, Fill))

NextSym == Symlink \/ Unlink \/ SymlinkLong \/ UnlinkLong

SpecSym == InitSym /\ [][NextSym]_vars

\* names are unlinked on the volume of Image and on the volume where the
\* file n is created in /b (inode 17) and 3073 bytes are written to it
InitGone ==
    Started(Engines \cup Worked(Engines, <<Op("create", <<NameN, InoB>>),
                                           Op("write", <<FirstFreeIno, 0, BigBuf>>)>>))

NextGone == Symlink \/ Unlink

SpecGone == InitGone /\ [][NextGone]_vars

\* the blocks a directory grew by during the last call
GrewBy(d) == (SizeOf(fs, d) - SizeOf(pre, d)) \div BlockSize

\* C23 : a successful symlink with a target of at most 60 bytes stores the
\* target in the bytes of the inode's 15 pointer slots, sets the size to
\* the target length and allocates no block for the link (the sector
\* count is 0, the only blocks allocated are the ones the directory grew
\* by); with a longer target it allocates the data block, stores the
\* target there and sets the size to the target length.
C23_SymlinkStorage ==
    (last.op = "symlink" /\ last.tag = "ok")
    => With([ino \in {RawInode(fs.disk, last.val.nbr)} |->
           With([len \in {last.args[2]} |->
           /\ is_symlink(ino)
           /\ low_size(ino) = len
           /\ get_size(ino) = len
           /\ IF len <= FAST_SYMLINK_SIZE_MAX
              THEN /\ Slice(ino, DirectOff(0), len) = OfSeq(TargetOf(len))
                   /\ nbr_disk_sectors(ino) = 0
                   /\ Len(fs.allocd) = GrewBy(last.args[1])
              ELSE /\ U32(ino, DirectOff(0)) # 0
                   /\ U32(ino, DirectOff(0)) = fs.allocd[1]
                   /\ Slice(fs.disk, BlockAddr(U32(ino, DirectOff(0))), len) = OfSeq(TargetOf(len))
                   /\ nbr_disk_sectors(ino) * SectorSize = BlockSize
                   /\ Len(fs.allocd) = 1 + GrewBy(last.args[1])])])

\* a symbolic link with a target of 61 bytes was made in /b, which has
\* room for its entry : the call allocated the data block and no other
C23_Witness ==
    /\ last.op = "symlink"
    /\ last.tag = "ok"
    /\ last.args[1] = InoB
    /\ last.args[2] = FAST_SYMLINK_SIZE_MAX + 1
    /\ GrewBy(InoB) = 0
    /\ Len(fs.allocd) = 1
    /\ get_size(RawInode(fs.disk, last.val.nbr)) = FAST_SYMLINK_SIZE_MAX + 1


AllBlocks == 1..(NbrBlockGrp * BlocksPerGrp)

\* the inode the last call (an unlink) names, before the call
Unlinked == Target(pre, last.args[1], last.args[2])

C25_NoPanic ==
    nops = 1 => last.tag # "panic"

(***************************************************************************)
(* The device writes of one allocation, one at a time.                     *)
(***************************************************************************)

\* inner.rs, alloc_inode_on_grp : the device writes the function issues, in
\* program order, each with the in-memory free-inode count that holds when it
\* is issued.  No write is issued when the group has no free inode.
alloc_inode_on_grp_writes(st, n) ==
    With([rd \in {get_block_grp_descriptor(st, n)} |->
        IF rd.tag # "ok" THEN <<>>
        ELSE IF nbr_free_inodes(rd.val.d) = 0 THEN <<>>
        ELSE
        With([bitmap_addr \in {to_addr(st, inode_usage_bitmap(rd.val.d))} |->
            IF ~read_struct_ok(st, bitmap_addr, BitmapBufSize) THEN <<>>
            ELSE
            With([bitmap \in {read_struct(st, bitmap_addr, BitmapBufSize)} |->
                With([i \in {first_clear(bitmap, inodes_per_block_grp(st))} |->
                IF i < 0 THEN <<>>
                ELSE
                With([byte \in {set_bit(Get(bitmap, i \div 8), i % 8, TRUE)} |->
                    With([w1 \in {[addr |-> Plus(bitmap_addr, i \div 8), n |-> 1,
                                   bytes |-> LE(byte, 1), fi |-> st.fi]} |->
                    IF st.fi = 0 THEN <<w1>>
                    ELSE
                    <<w1,
                      [addr |-> Addr(SuperblockAddr), n |-> SuperBlockStructSize,
                       bytes |-> superblock_of([st EXCEPT !.fi = @ - 1]), fi |-> st.fi - 1],
                      [addr |-> rd.val.addr, n |-> DescSize,
                       bytes |-> SetU16(rd.val.d, 14, nbr_free_inodes(rd.val.d) - 1),
                       fi |-> st.fi - 1]>>])])])])])])

\* The k-th device write of alloc_inode_on_grp(n) reaches the device; the call
\* was started on the state kept in pre.
AllocInodeWrite ==
    \E n \in Groups :
        /\ last.tag = "ok"
        /\ \/ last.op = NoCall.op
           \/ last.op = "alloc_inode_on_grp" /\ last.args[1] = n
        /\ With([k \in {IF last.op = NoCall.op THEN 0 ELSE last.args[2]} |->
           With([ws \in {alloc_inode_on_grp_writes(IF k = 0 THEN fs ELSE pre, n)} |->
               k < Len(ws)])])
        /\ fs' = With([k \in {IF last.op = NoCall.op THEN 0 ELSE last.args[2]} |->
                 With([w \in {alloc_inode_on_grp_writes(IF k = 0 THEN fs ELSE pre, n)[k + 1]} |->
                     [fs EXCEPT !.disk = write_struct(fs, w.addr, w.n, w.bytes),
                                !.fi = w.fi]])])
        /\ last' = With([k \in {IF last.op = NoCall.op THEN 0 ELSE last.args[2]} |->
                   With([w \in {alloc_inode_on_grp_writes(IF k = 0 THEN fs ELSE pre, n)[k + 1]} |->
                       [op |-> "alloc_inode_on_grp", args |-> <<n, k + 1, w.addr>>,
                        tag |-> "ok", val |-> 0]])])
        /\ pre' = IF last.op = NoCall.op THEN fs ELSE pre
        /\ nops' = IF last.op = NoCall.op THEN nops + 1 ELSE nops
        /\ prev' = last
        /\ UNCHANGED <<file, lock>>

NextOrder == AllocInodeWrite

SpecOrder == InitAlloc /\ [][NextOrder]_vars

\* What a device address (one inside the device) holds, by the layout of
\* the volume.
WriteKind(addr) ==
    With([b \in {addr[2] \div BlockSize} |->
        IF addr = Addr(SuperblockAddr) THEN "superblock"
        ELSE IF b = DescAddr(0) \div BlockSize THEN "descriptor"
        ELSE IF \E g \in Groups : b \in {GrpBlockBitmap(g), GrpInodeBitmap(g)} THEN "bitmap"
        ELSE IF \E g \in Groups : b \in GrpInodeTable(g)..(GrpInodeTable(g) + InodeTableBlocks - 1)
             THEN "inode"
        ELSE "data"])

\* The place of a kind of write in the order the operations are said to follow.
WriteRank(kind) ==
    CASE kind = "data" -> 1
      [] kind = "inode" -> 3
      [] kind = "bitmap" -> 4
      [] kind = "descriptor" -> 5
      [] kind = "superblock" -> 6

\* C26 : within one operation the device writes come in the order data, inode
\* record, bitmap byte, group descriptor, superblock: a write never follows a
\* write of a later kind, so the descriptor is never written after the
\* superblock.
C26_WriteOrder ==
    (last.op = "alloc_inode_on_grp" /\ prev.op = "alloc_inode_on_grp")
        => WriteRank(WriteKind(last.args[3])) >= WriteRank(WriteKind(prev.args[3]))

(***************************************************************************)
(* File handles (mod.rs, File and impl RWS for File)                       *)
(*   a handle : [inode, curr_offset, options, call]; options holds the    *)
(*   read and write flags it was opened with, call the method it is       *)
(*   inside while it holds the engine (NoCall otherwise).                  *)
(* The result of a method carries the handle as the method leaves it.      *)
(***************************************************************************)
File(inode, curr_offset, read_flag, write_flag) ==
    [inode |-> inode, curr_offset |-> curr_offset,
     options |-> [read |-> read_flag, write |-> write_flag], call |-> NoCall]

FileResult(st, tag, val, f) == [st |-> st, tag |-> tag, val |-> val, file |-> f]

\* write without the test of the write flag
File_write_unchecked(st, f, buf) ==
    With([r \in {write(st, f.inode, f.curr_offset, buf)} |->
        IF r.tag = "ok"
        THEN FileResult(r.st, "ok", r.val.n, [f EXCEPT !.curr_offset = r.val.off])
        ELSE FileResult(r.st, r.tag, r.val, [f EXCEPT !.curr_offset = r.off])])

\* a mutex that lets everybody in
Mutex_open(held) == TRUE

\* spin::Mutex::lock : the caller gets the guard when the mutex is not held
Mutex_lock(held) == ~held

\* mod.rs, File::write : write moves self.curr_offset chunk by chunk, so a
\* write that fails after some chunks leaves the offset advanced
File_write(st, f, buf) ==
    IF ~f.options.write THEN FileResult(st, "err", "AccessError", f)
    ELSE
    With([r \in {write(st, f.inode, f.curr_offset, buf)} |->
        IF r.tag = "ok"
        THEN FileResult(r.st, "ok", r.val.n, [f EXCEPT !.curr_offset = r.val.off])
        ELSE FileResult(r.st, r.tag, r.val, [f EXCEPT !.curr_offset = r.off])])

\* mod.rs, File::read : read moves self.curr_offset block by block while it
\* gathers, so a read that panics after some blocks leaves the offset advanced
File_read(st, f, buf) ==
    IF ~f.options.read THEN FileResult(st, "err", "AccessError", f)
    ELSE
    With([r \in {read(st, f.inode, f.curr_offset, buf.len)} |->
        IF r.tag = "ok"
        THEN FileResult(r.st, "ok", r.val.n, [f EXCEPT !.curr_offset = r.val.off])
        ELSE FileResult(r.st, r.tag, r.val, [f EXCEPT !.curr_offset = r.off])])

\* mod.rs, File::write_at
File_write_at(st, f, addr, buf) ==
    IF ~f.options.write THEN FileResult(st, "err", "AccessError", f)
    ELSE
    With([r \in {write(st, f.inode, addr, buf)} |->
        IF r.tag = "ok" THEN FileResult(r.st, "ok", r.val.n, f)
        ELSE FileResult(r.st, r.tag, r.val, f)])

\* mod.rs, File::read_at
File_read_at(st, f, addr, buf) ==
    IF ~f.options.read THEN FileResult(st, "err", "AccessError", f)
    ELSE
    With([r \in {read(st, f.inode, addr, buf.len)} |->
        IF r.tag = "ok" THEN FileResult(r.st, "ok", r.val.n, f)
        ELSE FileResult(r.st, r.tag, r.val, f)])

\* syscall.rs, read_inode
read_inode(st, inode_number) ==
    With([rg \in {get_inode(st, inode_number)} |->
        IF rg.tag # "ok" THEN rg ELSE Ok(st, rg.val.inode)])

\* mod.rs, File::seek : no flag is tested
File_seek(st, f, pos) ==
    With([r \in {read_inode(st, f.inode)} |->
        IF r.tag # "ok" THEN FileResult(r.st, r.tag, r.val, f)
        ELSE IF f.curr_offset + pos > get_size(r.val) THEN FileResult(st, "err", "OutOfSpace", f)
        ELSE FileResult(st, "ok", 0, [f EXCEPT !.curr_offset = f.curr_offset + pos])])

\* mod.rs, File::seek_absolute : no flag is tested
File_seek_absolute(st, f, pos) ==
    With([r \in {read_inode(st, f.inode)} |->
        IF r.tag # "ok" THEN FileResult(r.st, r.tag, r.val, f)
        ELSE IF pos > get_size(r.val) THEN FileResult(st, "err", "OutOfSpace", f)
        ELSE FileResult(st, "ok", 0, [f EXCEPT !.curr_offset = pos])])


(***************************************************************************)
(* Permission bits (typeperm.rs; syscall.rs, chmod)                        *)
(***************************************************************************)
\* a & b and a | b on words of w bits, !a on 16 bits
RECURSIVE BitAnd(_, _, _)
BitAnd(a, b, w) ==
    IF w = 0 THEN 0
    ELSE (a % 2) * (b % 2) + 2 * BitAnd(a \div 2, b \div 2, w - 1)

BitOr(a, b, w) == a + b - BitAnd(a, b, w)

BitNot16(a) == (U16Mod - 1) - a

SPECIAL_BITS == 3584
PERMISSIONS_MASK == AllAllowed

\* a remove_mode that removes nothing
remove_mode_none(tp, mode) == tp

\* TypePerm::remove_mode : self.0 & !mode
remove_mode(tp, mode) == BitAnd(tp, BitNot16(mode), 16)

\* TypePerm::insert_mode : self.0 | mode
insert_mode(tp, mode) == BitOr(tp, mode, 16)

\* syscall.rs, chmod
chmod(st, inode_nbr, mode) ==
    With([mask \in {BitOr(SPECIAL_BITS, PERMISSIONS_MASK, 16)} |->
        With([m \in {BitAnd(mode, mask, 16)} |->
        With([rg \in {get_inode(st, inode_nbr)} |->
        IF rg.tag # "ok" THEN rg
        ELSE
        With([tp \in {insert_mode(remove_mode(type_and_perm(rg.val.inode), mask), m)} |->
            Ok([st EXCEPT !.disk = write_struct(st, rg.val.addr, InodeStructSize,
                                                SetU16(rg.val.inode, 0, tp))],
               0)])])])])

\* syscall.rs, utime : times is [some |-> FALSE] for a null pointer, or
\* [some |-> TRUE, access_time, modification_time]
utime(st, inode_number, times, current_time) ==
    With([rg \in {get_inode(st, inode_number)} |->
        IF rg.tag # "ok" THEN rg
        ELSE
        With([at \in {IF times.some THEN times.access_time ELSE current_time} |->
        With([mt \in {IF times.some THEN times.modification_time ELSE current_time} |->
            Ok([st EXCEPT !.disk = write_struct(st, rg.val.addr, InodeStructSize,
                                                SetU32(SetU32(rg.val.inode, 8, at), 16, mt))],
               0)])])])

\* syscall.rs, chown : an owner or a group of u16::MAX is left as it is
chown(st, inode_nbr, owner, group) ==
    With([rg \in {get_inode(st, inode_nbr)} |->
        IF rg.tag # "ok" THEN rg
        ELSE
        With([i1 \in {IF owner # U16Mod - 1 THEN SetU16(rg.val.inode, 2, owner)
                      ELSE rg.val.inode} |->
        With([i2 \in {IF group # U16Mod - 1 THEN SetU16(i1, 24, group) ELSE i1} |->
            Ok([st EXCEPT !.disk = write_struct(st, rg.val.addr, InodeStructSize, i2)],
               0)])])])

\* modes with no bit, some bits, every permission and special bit, file-type
\* bits, every bit
Modes == {0, 420, 4095, 16877, 65535}

Chmod ==
    \E i \in {InoA, InoF, InoU, FirstFreeIno}, mode \in Modes :
        Step("chmod", <<i, mode>>, chmod(Begin, i, mode))

\* owners and groups : one that is set, and the one that means "keep"
Ids == {5, U16Mod - 1}

Chown ==
    \E i \in {InoF, FirstFreeIno}, owner \in Ids, group \in Ids :
        Step("chown", <<i, owner, group>>, chown(Begin, i, owner, group))

\* a null pointer and a buffer of two times; the current time
UtimeBuffers == {[some |-> FALSE], [some |-> TRUE, access_time |-> 1, modification_time |-> 2]}

Utime ==
    \E i \in {InoF, FirstFreeIno}, times \in UtimeBuffers, current_time \in {7} :
        Step("utime", <<i, times, current_time>>, utime(Begin, i, times, current_time))

NextMode == Chmod \/ Chown \/ Utime \/ Symlink \/ Create

SpecMode == InitNames /\ [][NextMode]_vars

\* the mode word of inode n
ModeOf(st, n) == type_and_perm(RawInode(st.disk, n))

\* C28 : a chmod(i, m) that returns Ok leaves the inode with the low 12 bits of
\* its mode word (permissions, setuid, setgid, sticky) equal to the low 12 bits
\* of m and the high 4 bits (the file type) as they were, and changes no other
\* byte of the volume; a chmod that fails changes nothing.
C28_Chmod ==
    (last.op = "chmod") =>
        IF last.tag = "ok"
        THEN /\ ModeOf(fs, last.args[1]) % 4096 = last.args[2] % 4096
             /\ ModeOf(fs, last.args[1]) \div 4096 = ModeOf(pre, last.args[1]) \div 4096
             /\ fs = [pre EXCEPT !.disk =
                         write_struct(pre, Addr(InodeAddrOf(last.args[1])), 2,
                                      LE(ModeOf(fs, last.args[1]), 2)),
                                 !.allocd = <<>>, !.freed = <<>>]
        ELSE /\ last.tag = "err"
             /\ fs = [pre EXCEPT !.allocd = <<>>, !.freed = <<>>]

\* a symbolic link made by the call before has had permission bits taken
\* away by a mode that also carried the file-type bits of a directory
C28_Witness ==
    /\ last.op = "chmod"
    /\ last.tag = "ok"
    /\ prev.op = "symlink"
    /\ prev.tag = "ok"
    /\ last.args[1] = FirstFreeIno
    /\ last.args[2] = FT_Directory + DirPerm
    /\ ModeOf(pre, FirstFreeIno) = FT_Symlink + AllAllowed
    /\ ModeOf(fs, FirstFreeIno) = FT_Symlink + DirPerm

(***************************************************************************)
(* Paths (interface.rs, Path) and the path methods of Ext2 (mod.rs)        *)
(*   a path is the sequence of the bytes of its string; an iteration over  *)
(*   a directory is [items, end] as in entries_from, each item with the    *)
(*   inode its record names.                                               *)
(***************************************************************************)
\* Path::is_absolute : starts_with('/')
Path_is_absolute(path) == Len(path) >= 1 /\ path[1] = Slash

\* Path::has_relative : contains("..")
Path_has_relative(path) == \E i \in 1..(Len(path) - 1) : path[i] = 46 /\ path[i + 1] = 46

\* str::split('/') from byte i on, cur being the piece begun
RECURSIVE str_split(_, _, _)
str_split(s, i, cur) ==
    IF i > Len(s) THEN <<cur>>
    ELSE IF s[i] = Slash THEN <<cur>> \o str_split(s, i + 1, <<>>)
    ELSE str_split(s, i + 1, Append(cur, s[i]))

\* Path::components
Path_components(path) == str_split(path, 1, <<>>)

\* '/' and the component, for the k-th component and those after it but the
\* last
RECURSIVE pushed(_, _)
pushed(cs, k) == IF k >= Len(cs) THEN <<>> ELSE <<Slash>> \o cs[k] \o pushed(cs, k + 1)

NoPath == [some |-> FALSE]

\* Path::parent : None when split yields nothing, which it never does, so
\* the parent of "/a/f" is "//a" and the parent of "/" is "/"
Path_parent(path) ==
    IF Len(Path_components(path)) = 0 THEN NoPath
    ELSE [some |-> TRUE, path |-> pushed(Path_components(path), 1)]

\* Path::file_name : the whole string
Path_file_name(path) == path

\* mod.rs, get_path : "ok" or the Errno
get_path(path) ==
    IF ~Path_is_absolute(path) THEN "Unsupported"
    ELSE IF Path_has_relative(path) THEN "Unsupported"
    ELSE "ok"

\* the filter_map of lookup_directory : the records whose inode get_inode
\* gives, with that inode; a get_inode that panics ends the iteration there
RECURSIVE with_inodes(_, _, _, _)
with_inodes(st, it, k, acc) ==
    IF k > Len(it.items) THEN [items |-> acc, end |-> it.end]
    ELSE With([rg \in {get_inode(st, DE_get_inode(it.items[k].e))} |->
             IF rg.tag = "panic" THEN [items |-> acc, end |-> "panic"]
             ELSE with_inodes(st, it, k + 1,
                              IF rg.tag = "ok"
                              THEN Append(acc, [e |-> it.items[k].e, inode |-> rg.val.inode])
                              ELSE acc)])

\* syscall.rs, lookup_directory : val = the iteration
lookup_directory(st, inode_nbr) ==
    With([ri \in {iter_entries(st, inode_nbr)} |->
        IF ri.tag # "ok" THEN ri ELSE Ok(st, with_inodes(st, ri.val, 1, <<>>))])

\* an iteration run to its end (fold, collect, or a find that finds nothing)
iter_end(st, it) ==
    IF it.end = "panic" THEN Panic(st, "panic in get_inode")
    ELSE IF it.end # "none" THEN Hang(st)
    ELSE Ok(st, 0)

\* Iterator::find, hits being the places of the items the closure accepts
iter_first(st, it, hits) ==
    IF hits # {} THEN Ok(st, [some |-> TRUE, e |-> it.items[SetMin(hits)].e,
                              inode |-> it.items[SetMin(hits)].inode])
    ELSE IF iter_end(st, it).tag # "ok" THEN iter_end(st, it)
    ELSE Ok(st, NoDirEntry)

\* interface.rs, compare(&entry.directory.filename.0, directory, directory.len()) :
\* the first bytes of the name field are those of the component, whatever
\* the length of the name
compare(e, directory) ==
    /\ Len(directory) <= FILENAME_MAX + 1
    /\ ToSeq(e, DirHeaderSize, Len(directory)) = directory

\* the loop of _lookup_directory from the k-th component on
RECURSIVE lookup_components(_, _, _, _)
lookup_components(st, it, cs, k) ==
    IF k > Len(cs) THEN Ok(st, it)
    ELSE IF cs[k] = <<>> THEN lookup_components(st, it, cs, k + 1)
    ELSE
    With([rf \in {iter_first(st, it, {i \in 1..Len(it.items) : compare(it.items[i].e, cs[k])})} |->
        IF rf.tag # "ok" THEN rf
        ELSE IF ~rf.val.some THEN Err(st, "NotFound")
        ELSE With([rl \in {lookup_directory(st, DE_get_inode(rf.val.e))} |->
                 IF rl.tag # "ok" THEN rl
                 ELSE lookup_components(st, rl.val, cs, k + 1)])])

\* mod.rs, _lookup_directory : val = the iteration over the directory
_lookup_directory(st, path) ==
    IF ~Path_is_absolute(path) THEN Panic(st, "debug_assert_eq path.is_absolute()")
    ELSE
    With([rl \in {lookup_directory(st, RootIno)} |->
        IF rl.tag = "err" THEN Panic(st, "Root mut be a directory")
        ELSE IF rl.tag # "ok" THEN rl
        ELSE lookup_components(st, rl.val, Path_components(path), 1)])

\* mod.rs, _find_entry : val = the entry, or NoDirEntry
_find_entry(st, path) ==
    IF Path_parent(path).some
    THEN With([rl \in {_lookup_directory(st, Path_parent(path).path)} |->
             IF rl.tag # "ok" THEN rl
             ELSE iter_first(st, rl.val,
                             {i \in 1..Len(rl.val.items) :
                                 DE_get_filename(rl.val.items[i].e) = Path_file_name(path)})])
    ELSE With([rl \in {_lookup_directory(st, path)} |->
             IF rl.tag # "ok" THEN rl
             ELSE iter_first(st, rl.val,
                             {i \in 1..Len(rl.val.items) :
                                 DE_get_filename(rl.val.items[i].e) = Dot})])

\* _find_entry, then `?`, then unwrap
find_entry_unwrap(st, path) ==
    With([rf \in {_find_entry(st, path)} |->
        IF rf.tag # "ok" THEN rf
        ELSE IF ~rf.val.some THEN Panic(st, "unwrap on None")
        ELSE rf])

\* FileType of a DirectoryEntryType
FT_Unknown == 61440
FileType_of(type_indicator) ==
    CASE type_indicator = DT_RegularFile -> FT_RegularFile
      [] type_indicator = DT_Directory -> FT_Directory
      [] type_indicator = 3 -> 8192
      [] type_indicator = 4 -> 24576
      [] type_indicator = 5 -> 4096
      [] type_indicator = 6 -> 49152
      [] type_indicator = DT_SymbolicLink -> FT_Symlink
      [] OTHER -> FT_Unknown

\* SuperBlock::directory_entry_contain_type_field : bit 1 of the required
\* features
directory_entry_contain_type_field(superblock) == (U32(superblock, 96) \div 2) % 2 = 1

\* mod.rs, def_mode : UserWrite | AllRead
def_mode == 420
AllExec == 73

\* mod.rs, Ext2::read_dir from the lock on : val = the DirEntry values
Ext2_read_dir(st, path) ==
    With([rl \in {_lookup_directory(st, path)} |->
        IF rl.tag # "ok" THEN rl
        ELSE IF iter_end(st, rl.val).tag # "ok" THEN iter_end(st, rl.val)
        ELSE Ok(st, [i \in 1..Len(rl.val.items) |->
                        [inode |-> DE_get_inode(rl.val.items[i].e),
                         offset |-> i - 1,
                         file_type |-> IF directory_entry_contain_type_field(st.superblock)
                                       THEN FileType_of(DE_type(rl.val.items[i].e))
                                       ELSE FT_Unknown,
                         file_name |-> ToSeq(rl.val.items[i].e, DirHeaderSize, FILENAME_MAX + 1)]])])

\* mod.rs, Ext2::create_dir from the lock on : the closure of the fold turns
\* the whole path into a Filename and unwraps it at the first entry
Ext2_create_dir(st, path) ==
    With([rl \in {_lookup_directory(st, Path_parent(path).path)} |->
        IF rl.tag # "ok" THEN rl
        ELSE IF rl.val.items # <<>> /\ Filename_try_from(Path_file_name(path)) # "ok"
        THEN Panic(st, "unwrap on Err (Filename::try_from)")
        ELSE IF iter_end(st, rl.val).tag # "ok" THEN iter_end(st, rl.val)
        ELSE IF \E i \in 1..Len(rl.val.items) :
                    ToSeq(rl.val.items[i].e, DirHeaderSize, FILENAME_MAX + 1)
                        = ToSeq(OfSeq(Path_file_name(path)), 0, FILENAME_MAX + 1)
        THEN Err(st, "AlreadyExists")
        ELSE
        With([rf \in {iter_first(st, rl.val, {i \in 1..Len(rl.val.items) :
                                                 DE_get_filename(rl.val.items[i].e) = Dot})} |->
            IF ~rf.val.some THEN Panic(st, "unwrap on None")
            ELSE
            With([rc \in {create_dir(st, DE_get_inode(rf.val.e), Path_file_name(path), 0,
                                     BitOr(def_mode, AllExec, 16), 0, 0)} |->
                IF rc.tag # "ok" THEN rc ELSE Ok(rc.st, 0)])])])

\* mod.rs, Ext2::remove_dir from the lock on : a directory of more than two
\* entries is refused
Ext2_remove_dir(st, path) ==
    With([rl \in {_lookup_directory(st, path)} |->
        IF rl.tag # "ok" THEN rl
        ELSE IF iter_end(st, rl.val).tag # "ok" THEN iter_end(st, rl.val)
        ELSE IF Len(rl.val.items) > 2 THEN Err(st, "AccessError")
        ELSE
        With([rf \in {iter_first(st, rl.val, {i \in 1..Len(rl.val.items) :
                                                 DE_get_filename(rl.val.items[i].e) = DotDot})} |->
            IF ~rf.val.some THEN Panic(st, "unwrap on None")
            ELSE rmdir(st, DE_get_inode(rf.val.e), Path_file_name(path))])])

\* mod.rs, Ext2::chmod from the lock on
Ext2_chmod(st, path, mode) ==
    With([rf \in {_find_entry(st, path)} |->
        IF rf.tag # "ok" THEN rf
        ELSE IF ~rf.val.some THEN Err(st, "NotFound")
        ELSE chmod(st, DE_get_inode(rf.val.e), mode)])

\* mod.rs, Ext2::chown from the lock on
Ext2_chown(st, path, owner, group) ==
    With([rf \in {_find_entry(st, path)} |->
        IF rf.tag # "ok" THEN rf
        ELSE IF ~rf.val.some THEN Err(st, "NotFound")
        ELSE chown(st, DE_get_inode(rf.val.e), owner, group)])

\* mod.rs, _stat
_stat(st, inode_nbr, inode) ==
    [device_id |-> 0, inode_id |-> inode_nbr, type_and_perms |-> type_and_perm(inode),
     number_hard_links |-> U16(inode, 26), user_id |-> U16(inode, 2), group_id |-> U16(inode, 24),
     special_device_id |-> 0, size |-> get_size(inode), last_access |-> U32(inode, 8),
     last_modification |-> U32(inode, 16), creation_time |-> U32(inode, 12),
     block_size |-> st.block_size, number_blocks |-> U32(inode, 28),
     last_access_ns |-> 0, last_modification_ns |-> 0, creation_time_ns |-> 0]

\* mod.rs, Ext2::stat from the lock on
Ext2_stat(st, path) ==
    With([rf \in {_find_entry(st, path)} |->
        IF rf.tag # "ok" THEN rf
        ELSE IF ~rf.val.some THEN Err(st, "NotFound")
        ELSE Ok(st, _stat(st, DE_get_inode(rf.val.e), rf.val.inode))])

\* mod.rs, Ext2::remove_file from the lock on
Ext2_remove_file(st, path) ==
    With([rf \in {find_entry_unwrap(st, Path_parent(path).path)} |->
        IF rf.tag # "ok" THEN rf
        ELSE unlink(st, DE_get_inode(rf.val.e), Path_file_name(path), TRUE)])

\* mod.rs, Ext2::utime from the lock on
Ext2_utime(st, path, time) ==
    With([rf \in {_find_entry(st, path)} |->
        IF rf.tag # "ok" THEN rf
        ELSE IF ~rf.val.some THEN Err(st, "NotFound")
        ELSE utime(st, DE_get_inode(rf.val.e), time, 0)])

\* `if let Ok(Some(_)) = _find_entry(..) { return Err(AlreadyExists) }` :
\* "ok" when the method goes on
not_there(st, path) ==
    With([rf \in {_find_entry(st, path)} |->
        IF rf.tag \notin {"ok", "err"} THEN rf
        ELSE IF rf.tag = "ok" /\ rf.val.some THEN Err(st, "AlreadyExists")
        ELSE Ok(st, 0)])

\* mod.rs, Ext2::rename from the lock on
Ext2_rename(st, path, new_path) ==
    With([rn \in {not_there(st, new_path)} |->
    IF rn.tag # "ok" THEN rn
    ELSE
    With([child \in {_find_entry(st, Path_parent(path).path)} |->
        IF child.tag # "ok" THEN child
        ELSE IF ~child.val.some THEN Err(st, "NotFound")
        ELSE
        With([new_parent \in {find_entry_unwrap(st, Path_parent(new_path).path)} |->
            IF new_parent.tag # "ok" THEN new_parent
            ELSE rename(st, DE_get_inode(child.val.e), Path_file_name(path),
                        DE_get_inode(new_parent.val.e), Path_file_name(new_path))])])])

\* mod.rs, Ext2::link from the lock on
Ext2_link(st, target_path, link_path) ==
    With([rn \in {not_there(st, link_path)} |->
    IF rn.tag # "ok" THEN rn
    ELSE
    With([target_entry \in {_find_entry(st, target_path)} |->
        IF target_entry.tag # "ok" THEN target_entry
        ELSE IF ~target_entry.val.some THEN Err(st, "NotFound")
        ELSE
        With([parent_link \in {find_entry_unwrap(st, Path_parent(link_path).path)} |->
            IF parent_link.tag # "ok" THEN parent_link
            ELSE With([rl \in {link(st, DE_get_inode(parent_link.val.e),
                                    DE_get_inode(target_entry.val.e),
                                    Path_file_name(link_path))} |->
                     IF rl.tag # "ok" THEN rl ELSE Ok(rl.st, 0)])])])])

\* mod.rs, Ext2::symlink from the lock on
Ext2_symlink(st, target_path, link_path) ==
    With([rn \in {not_there(st, link_path)} |->
    IF rn.tag # "ok" THEN rn
    ELSE
    With([parent_link_entry \in {find_entry_unwrap(st, Path_parent(link_path).path)} |->
        IF parent_link_entry.tag # "ok" THEN parent_link_entry
        ELSE With([rs \in {symlink(st, DE_get_inode(parent_link_entry.val.e), target_path,
                                   Path_file_name(link_path), 0)} |->
                 IF rs.tag # "ok" THEN rs ELSE Ok(rs.st, 0)])])])

\* OpenOptions : the five flags
OpenOptions(read_flag, write_flag, create_flag, append_flag, truncate_flag) ==
    [read |-> read_flag, write |-> write_flag, create |-> create_flag,
     append |-> append_flag, truncate |-> truncate_flag]

\* mod.rs, OpenOptions::open from the lock on : val = the File
OpenOptions_open(st, options, path) ==
    With([rf \in {_find_entry(st, path)} |->
        IF rf.tag # "ok" THEN rf
        ELSE IF rf.val.some
        THEN IF is_a_directory(rf.val.inode) THEN Err(st, "AccessError")
             ELSE
             With([rt \in {IF options.truncate /\ options.write
                           THEN truncate(st, DE_get_inode(rf.val.e), 0) ELSE Ok(st, 0)} |->
                 IF rt.tag # "ok" THEN rt
                 ELSE
                 With([ri \in {IF options.append /\ options.write
                               THEN read_inode(rt.st, DE_get_inode(rf.val.e)) ELSE Ok(rt.st, 0)} |->
                     IF ri.tag # "ok" THEN ri
                     ELSE Ok(rt.st, File(DE_get_inode(rf.val.e),
                                         IF options.append /\ options.write
                                         THEN get_size(ri.val) ELSE 0,
                                         options.read, options.write))])])
        ELSE IF options.create /\ options.write
        THEN With([parent \in {find_entry_unwrap(st, Path_parent(path).path)} |->
                 IF parent.tag # "ok" THEN parent
                 ELSE With([entry \in {create(st, Path_file_name(path), DE_get_inode(parent.val.e), 0,
                                              BitOr(def_mode, FT_RegularFile, 16), 0, 0)} |->
                          IF entry.tag # "ok" THEN entry
                          ELSE Ok(entry.st, File(DE_get_inode(entry.val.directory), 0,
                                                 options.read, options.write))])])
        ELSE Err(st, "NotFound")])

PathOps ==
    {"Ext2::create", "Ext2::open", "Ext2::read_dir", "Ext2::create_dir", "Ext2::remove_dir",
     "Ext2::chmod", "Ext2::chown", "Ext2::stat", "Ext2::remove_file", "Ext2::utime",
     "Ext2::rename", "Ext2::link", "Ext2::symlink", "OpenOptions::open"}

\* the methods that take two paths
TwoPathOps == {"Ext2::rename", "Ext2::link", "Ext2::symlink"}

\* what a path method does before it asks for the engine : "ok" when it goes
\* on to lock(), or the Errno it returns at once
before_lock(op, path, new_path) ==
    IF op = "Ext2::symlink"
    THEN IF get_path(new_path) # "ok" THEN get_path(new_path)
         ELSE IF ~Path_parent(new_path).some THEN "Unsupported"
         ELSE "ok"
    ELSE IF get_path(path) # "ok" THEN get_path(path)
    ELSE IF op \in {"Ext2::rename", "Ext2::link"} /\ get_path(new_path) # "ok" THEN get_path(new_path)
    ELSE IF op = "Ext2::rename" /\ ~(Path_parent(path).some /\ Path_parent(new_path).some)
    THEN "Unsupported"
    ELSE IF op = "Ext2::link" /\ ~Path_parent(new_path).some THEN "Unsupported"
    ELSE IF /\ op \in {"Ext2::create", "Ext2::open", "OpenOptions::open", "Ext2::create_dir",
                       "Ext2::remove_file"}
            /\ ~Path_parent(path).some
    THEN "AccessError"
    ELSE "ok"

\* the options a method opens with : Ext2::create writes, creates and
\* truncates, Ext2::open reads, and a caller of OpenOptions::open here
\* reads, writes and appends
OptionsOf(op) ==
    IF op = "Ext2::create" THEN OpenOptions(FALSE, TRUE, TRUE, FALSE, TRUE)
    ELSE IF op = "Ext2::open" THEN OpenOptions(TRUE, FALSE, FALSE, FALSE, FALSE)
    ELSE OpenOptions(TRUE, TRUE, FALSE, TRUE, FALSE)

\* a path method, run on the engine
PathCall(st, op, path, new_path) ==
    IF before_lock(op, path, new_path) # "ok" THEN Err(st, before_lock(op, path, new_path))
    ELSE
    CASE op \in {"Ext2::create", "Ext2::open", "OpenOptions::open"} ->
             OpenOptions_open(st, OptionsOf(op), path)
      [] op = "Ext2::read_dir" -> Ext2_read_dir(st, path)
      [] op = "Ext2::create_dir" -> Ext2_create_dir(st, path)
      [] op = "Ext2::remove_dir" -> Ext2_remove_dir(st, path)
      [] op = "Ext2::chmod" -> Ext2_chmod(st, path, DirPerm)
      [] op = "Ext2::chown" -> Ext2_chown(st, path, Owner, Group)
      [] op = "Ext2::stat" -> Ext2_stat(st, path)
      [] op = "Ext2::remove_file" -> Ext2_remove_file(st, path)
      [] op = "Ext2::utime" -> Ext2_utime(st, path, [some |-> FALSE])
      [] op = "Ext2::rename" -> Ext2_rename(st, path, new_path)
      [] op = "Ext2::link" -> Ext2_link(st, path, new_path)
      [] op = "Ext2::symlink" -> Ext2_symlink(st, path, new_path)

FileOps ==
    {"File::write", "File::read", "File::write_at", "File::read_at",
     "File::seek", "File::seek_absolute"}

\* the flag a method tests before it asks for the engine (seek and
\* seek_absolute test none)
Allowed(f, op) ==
    IF op \in {"File::write", "File::write_at"} THEN f.options.write
    ELSE IF op \in {"File::read", "File::read_at"} THEN f.options.read
    ELSE TRUE

\* a method of a handle, run on the engine
FileCall(st, f, op, addr, buf) ==
    CASE op = "File::write" -> File_write(st, f, buf)
      [] op = "File::read" -> File_read(st, f, buf)
      [] op = "File::write_at" -> File_write_at(st, f, addr, buf)
      [] op = "File::read_at" -> File_read_at(st, f, addr, buf)
      [] op = "File::seek" -> File_seek(st, f, addr)
      [] op = "File::seek_absolute" -> File_seek_absolute(st, f, addr)

Handles == {1, 2}

\* a clone of the Ext2 the handles were opened on : [call]
Clones == {3}
Ext2Clone == [call |-> NoCall]
Callers == Handles \cup Clones

\* "/a/f", "a/f" and "/a/.."
PathF == <<Slash, 97, Slash, 102>>
PathRel == <<97, Slash, 102>>
PathUp == <<Slash, 97, Slash, 46, 46>>
Paths == {PathF, PathRel, PathUp}

\* the paths the methods of two paths are called with
PathPairs == {PathF, PathRel} \X {PathF, PathRel}
HandleAddrs == {0, 2}
HandleBuf == Buf(3, OfSeq(<<21, 22, 23>>))

\* two handles, on /a/f and on /a/g, opened with any flags, and a clone
InitFile ==
    /\ fs \in Built(new)
    /\ pre = fs
    /\ last = NoCall
    /\ prev = NoCall
    /\ nops = 0
    /\ file \in {(1 :> File(InoF, 0, r1, w1)) @@ (2 :> File(InoG, 0, r2, w2)) @@ (3 :> Ext2Clone) :
                    r1 \in BOOLEAN, w1 \in BOOLEAN, r2 \in BOOLEAN, w2 \in BOOLEAN}
    /\ lock = FALSE

\* A method of handle h is called.  Without the flag it tests it returns
\* AccessError at once; with it, and in seek and seek_absolute, which test
\* none, the method waits for the mutex and takes it.
FileEnter ==
    \E h \in Handles, op \in FileOps, addr \in HandleAddrs :
        /\ Running
        /\ file[h].call = NoCall
        /\ nops' = nops + 1
        /\ IF ~Allowed(file[h], op)
           THEN /\ fs' = FileCall(Begin, file[h], op, addr, HandleBuf).st
                /\ file' = [file EXCEPT ![h] = FileCall(Begin, file[h], op, addr, HandleBuf).file]
                /\ last' = [op |-> op, args |-> <<h, addr, HandleBuf>>,
                            tag |-> FileCall(Begin, file[h], op, addr, HandleBuf).tag,
                            val |-> FileCall(Begin, file[h], op, addr, HandleBuf).val]
                /\ pre' = fs
                /\ prev' = last
                /\ UNCHANGED lock
           ELSE /\ Mutex_lock(lock)
                /\ lock' = TRUE
                /\ file' = [file EXCEPT ![h].call =
                               [op |-> op, args |-> <<h, addr, HandleBuf>>,
                                tag |-> "ok", val |-> 0]]
                /\ UNCHANGED <<fs, pre, last, prev>>

\* the program runs : no call has panicked or spun for ever
Alive(tag) == tag \in {"ok", "err"}

\* caller h is inside a method and the program has not stopped
CanReturn(h) == Alive(last.tag) /\ file[h].call # NoCall

\* the handle as a method that ran on the engine leaves it : a method that
\* panics never returns (the kernel's panic handler, main.rs, halts and
\* nothing unwinds), so its handle stays inside, with the offset as far as
\* the method had moved it
FileAfter(h, r) ==
    IF Alive(r.tag) THEN r.file ELSE [r.file EXCEPT !.call = file[h].call]

\* The method handle h is inside runs on the engine.  When it returns, the
\* guard is dropped on the way out; when it panics the guard is never
\* dropped and the mutex stays held.
FileReturn ==
    \E h \in Handles :
        /\ CanReturn(h)
        /\ fs' = FileCall(Begin, [file[h] EXCEPT !.call = NoCall], file[h].call.op,
                          file[h].call.args[2], file[h].call.args[3]).st
        /\ file' = [file EXCEPT ![h] =
                       FileAfter(h, FileCall(Begin, [file[h] EXCEPT !.call = NoCall], file[h].call.op,
                                             file[h].call.args[2], file[h].call.args[3]))]
        /\ last' = [op |-> file[h].call.op, args |-> file[h].call.args,
                    tag |-> FileCall(Begin, [file[h] EXCEPT !.call = NoCall], file[h].call.op,
                                     file[h].call.args[2], file[h].call.args[3]).tag,
                    val |-> FileCall(Begin, [file[h] EXCEPT !.call = NoCall], file[h].call.op,
                                     file[h].call.args[2], file[h].call.args[3]).val]
        /\ pre' = fs
        /\ prev' = last
        /\ lock' = ~Alive(FileCall(Begin, [file[h] EXCEPT !.call = NoCall], file[h].call.op,
                                   file[h].call.args[2], file[h].call.args[3]).tag)
        /\ UNCHANGED nops

\* A path method is called on clone c.  A path that get_path refuses makes
\* it return at once; otherwise the method waits for the mutex and takes it.
PathEnter ==
    \E c \in Clones, op \in PathOps, path \in Paths, new_path \in Paths :
        /\ Running
        /\ file[c].call = NoCall
        /\ IF op \in TwoPathOps THEN <<path, new_path>> \in PathPairs ELSE new_path = path
        /\ nops' = nops + 1
        /\ IF before_lock(op, path, new_path) # "ok"
           THEN /\ fs' = Begin
                /\ last' = [op |-> op, args |-> <<c, path, new_path>>,
                            tag |-> "err", val |-> before_lock(op, path, new_path)]
                /\ pre' = fs
                /\ prev' = last
                /\ UNCHANGED <<file, lock>>
           ELSE /\ Mutex_lock(lock)
                /\ lock' = TRUE
                /\ file' = [file EXCEPT ![c].call =
                               [op |-> op, args |-> <<c, path, new_path>>,
                                tag |-> "ok", val |-> 0]]
                /\ UNCHANGED <<fs, pre, last, prev>>

\* The path method clone c is inside runs on the engine; the mutex is freed
\* when it returns and stays held when it panics.
PathReturn ==
    \E c \in Clones :
        /\ CanReturn(c)
        /\ \E r \in {PathCall(Begin, file[c].call.op, file[c].call.args[2],
                               file[c].call.args[3])} :
              /\ fs' = r.st
              /\ last' = [op |-> file[c].call.op, args |-> file[c].call.args,
                          tag |-> r.tag, val |-> r.val]
              /\ lock' = ~Alive(r.tag)
              /\ file' = [file EXCEPT ![c].call = IF Alive(r.tag) THEN NoCall ELSE @]
        /\ pre' = fs
        /\ prev' = last
        /\ UNCHANGED nops

NextHandles == FileEnter \/ FileReturn \/ PathEnter \/ PathReturn

SpecHandles == InitFile /\ [][NextHandles]_vars

\* C27 : a read or read_at on a handle opened without the read flag, and a
\* write or write_at on a handle opened without the write flag, returns
\* AccessError and leaves the handle's offset and the filesystem as they were.
\* (A step that counts a call and moves no handle into the engine is a call
\* that returned at once.)
C27_AccessFlags ==
    [][\A h \in Handles :
          (/\ nops' = nops + 1
           /\ \A g \in Callers : file'[g].call = file[g].call
           /\ last'.op \in FileOps
           /\ last'.args[1] = h
           /\ ~Allowed(file[h], last'.op))
          => /\ last'.tag = "err"
             /\ last'.val = "AccessError"
             /\ file'[h].curr_offset = file[h].curr_offset
             /\ fs' = fs
             /\ lock' = lock]_vars

\* a write through a read-only handle was refused after a write through the
\* other handle had gone through
C27_Witness ==
    /\ last.op = "File::write"
    /\ ~file[last.args[1]].options.write
    /\ last.val = "AccessError"
    /\ prev.op = "File::write"
    /\ prev.tag = "ok"
    /\ prev.val = HandleBuf.len
    /\ fs = pre


\* the callers that are inside the engine
Inside == {h \in Callers : file[h].call # NoCall}

\* C29 : whatever the interleaving of the calls made through the handles and
\* the clones that share the engine, at most one of them is inside the engine;
\* the mutex is held exactly while a call is inside (it is taken once on the
\* way in and dropped on the way out), and while the program runs the call
\* that holds it can always go on to its return.
C29_OneAtATime ==
    /\ Cardinality(Inside) <= 1
    /\ lock <=> Inside # {}
    /\ (lock /\ Alive(last.tag)) => \E h \in Callers : CanReturn(h)

\* the clone is inside the engine after a call through handle 2 has gone
\* through the engine and returned
C29_Witness ==
    /\ lock
    /\ Inside = Clones
    /\ last.op \in FileOps
    /\ last.args[1] = 2
    /\ last.tag = "ok"
    /\ Allowed(file[2], last.op)

\* C30 : when unlink with free_data removes the last link of an inode, the
\* inode's bit in the inode bitmap is clear afterwards and so is the
\* block-bitmap bit of every data block and indirection block the inode
\* referenced.
C30_UnlinkFreesAll ==
    (/\ last.op = "unlink"
     /\ last.args[3]
     /\ Unlinked # 0
     /\ Usable(pre, Unlinked)
     /\ nbr_hard_links(RawInode(pre.disk, Unlinked)) = 1)
    => /\ ~InodeBitSet(fs.disk, Unlinked)
       /\ \A r \in RefsOfInode(pre.disk, Unlinked) : ~BlockBitSet(fs.disk, r[3])

(***************************************************************************)
(* get_bit and set_bit on every byte and every index                       *)
(***************************************************************************)
\* the arguments are drawn at the start : last.args = <<val, idx>>
InitBits ==
    /\ fs = new
    /\ pre = new
    /\ last \in {[NoCall EXCEPT !.args = <<v, idx>>] : v \in 0..255, idx \in 0..7}
    /\ prev = NoCall
    /\ nops = 0
    /\ file = NoFiles
    /\ lock = FALSE

GetBit ==
    /\ last.op = NoCall.op
    /\ Step("get_bit", last.args, Ok(fs, get_bit(last.args[1], last.args[2])))

SetBit ==
    \E value \in BOOLEAN :
        /\ last.op = NoCall.op
        /\ Step("set_bit", <<last.args[1], last.args[2], value>>,
                Ok(fs, set_bit(last.args[1], last.args[2], value)))

NextBits == GetBit \/ SetBit

SpecBits == InitBits /\ [][NextBits]_vars

\* bit idx of byte v is set
BitIsSet(v, idx) == (v \div Pow2(idx)) % 2 = 1

\* C35 : get_bit(v, idx) is true exactly when bit idx of v is set; after
\* set_bit(v, idx, b) get_bit of the new byte at idx equals b and every other
\* bit of the byte is as it was.
C35_Bits ==
    /\ (last.op = "get_bit") => (last.val <=> BitIsSet(last.args[1], last.args[2]))
    /\ (last.op = "set_bit") =>
           /\ get_bit(last.val, last.args[2]) = last.args[3]
           /\ \A k \in 0..7 :
                  k # last.args[2] => (BitIsSet(last.val, k) <=> BitIsSet(last.args[1], k))

(***************************************************************************)
(* truncate                                                                *)
(***************************************************************************)
\* the block in direct slot k of inode n
DirectSlot(st, n, k) == U32(RawInode(st.disk, n), DirectOff(k))

\* ceil(size / block_size)
BlocksFor(size) == (size + BlockSize - 1) \div BlockSize

\* C31 : truncate(i, n) with n <= size, on a regular file held by direct
\* blocks, returns Ok, sets the size to n, frees exactly the blocks at the
\* block offsets >= ceil(n / block_size), keeps every block at a lower offset
\* mapped where it was, and leaves the first n bytes of the file as they were.
C31_Truncate ==
    (/\ last.op = "truncate"
     /\ UsableFile(pre, last.args[1])
     /\ last.args[2] <= SizeOf(pre, last.args[1])
     /\ SizeOf(pre, last.args[1]) <= NbrDirect * BlockSize)
    => /\ last.tag = "ok"
       /\ SizeOf(fs, last.args[1]) = last.args[2]
       /\ \A k \in 0..(NbrDirect - 1) :
              DirectSlot(fs, last.args[1], k) =
                  IF k < BlocksFor(last.args[2]) THEN DirectSlot(pre, last.args[1], k) ELSE 0
       /\ {fs.freed[k] : k \in 1..Len(fs.freed)} =
              {DirectSlot(pre, last.args[1], k) :
                   k \in BlocksFor(last.args[2])..(NbrDirect - 1)} \ {0}
       /\ BytesAt(fs.disk, last.args[1], 0, last.args[2]) =
              BytesAt(pre.disk, last.args[1], 0, last.args[2])

(***************************************************************************)
(* inode_free_block on a file held by indirection blocks.                  *)
(* The volume of Init with /a/f given one chain of indirection blocks of   *)
(* 1, 2 or 3 levels (blocks 17, 41, 49) and data blocks in the slots 0     *)
(* and/or 1 of the last of them (blocks 33 and 57).                        *)
(***************************************************************************)
\* block b marked as taken : its bitmap bit and the count of its group
TakeBlock(disk, b) ==
    With([g \in {(b - 1) \div BlocksPerGrp} |->
        With([a \in {BlockAddr(GrpBlockBitmap(g)) + (((b - 1) % BlocksPerGrp) \div 8)} |->
            Splice(Splice(disk, a, 1,
                          LE(set_bit(Get(disk, a), ((b - 1) % BlocksPerGrp) % 8, TRUE), 1)),
                   DescAddr(g) + 12, 2,
                   LE(nbr_free_blocks(RawDesc(disk, g)) - 1, 2))])])

RECURSIVE TakeBlocks(_, _)
TakeBlocks(disk, blocks) ==
    IF blocks = {} THEN disk
    ELSE With([b \in {CHOOSE x \in blocks : \A y \in blocks : x <= y} |->
             TakeBlocks(TakeBlock(disk, b), blocks \ {b})])

ChainTables(level) == IF level = 1 THEN <<17>> ELSE IF level = 2 THEN <<17, 41>> ELSE <<17, 41, 49>>

ChainData(slot) == IF slot = 0 THEN 33 ELSE 57

ChainField(level) == IF level = 1 THEN SinglyOff ELSE IF level = 2 THEN DoublyOff ELSE TriplyOff

ChainStart(level) ==
    IF level = 1 THEN OffsetSingly ELSE IF level = 2 THEN OffsetDoubly(PtrsPerBlock) ELSE OffsetTriply(PtrsPerBlock)

RECURSIVE PutSlots(_, _, _)
PutSlots(disk, table, slots) ==
    IF slots = {} THEN disk
    ELSE With([k \in {CHOOSE x \in slots : \A y \in slots : x <= y} |->
             PutSlots(SetU32(disk, BlockAddr(table) + k * PtrSize, ChainData(k)), table, slots \ {k})])

ChainDisk(level, slots) ==
    With([inode \in {SetU32(update_size(RawInode(Image, InoF),
                                        (ChainStart(level) + 2) * BlockSize, BlockSize),
                            ChainField(level), 17)} |->
        With([d1 \in {Splice(Image, InodeAddrOf(InoF), InodeStructSize, inode)} |->
        With([d2 \in {IF level >= 2 THEN SetU32(d1, BlockAddr(17), 41) ELSE d1} |->
        With([d3 \in {IF level = 3 THEN SetU32(d2, BlockAddr(41), 49) ELSE d2} |->
        With([d4 \in {PutSlots(d3, ChainTables(level)[level], slots)} |->
            TakeBlocks(d4, {ChainTables(level)[k] : k \in 1..level}
                           \cup {ChainData(k) : k \in slots})])])])])])

\* Ext2Filesystem::new on that volume
ChainVolume(level, slots) ==
    With([disk \in {ChainDisk(level, slots)} |->
        write_superblock([new EXCEPT !.disk = disk, !.fb = SumFreeBlocks(disk, 0)])])

InitChain ==
    /\ fs \in UNION {Built(ChainVolume(level, slots)) : level \in 1..3, slots \in {{0}, {1}, {0, 1}}}
    /\ pre = fs
    /\ last = NoCall
    /\ prev = NoCall
    /\ nops = 0
    /\ file = NoFiles
    /\ lock = FALSE

\* inode_free_block at the first two block offsets of each range
FreeChain ==
    \E level \in 1..3, k \in {0, 1} :
        Step("inode_free_block", <<InoF, ChainStart(level) + k>>,
             With([rg \in {get_inode(Begin, InoF)} |->
                 IF rg.tag # "ok" THEN rg
                 ELSE Plain(inode_free_block(Begin, rg.val.inode, rg.val.addr,
                                             ChainStart(level) + k))]))

NextChain == FreeChain

SpecChain == InitChain /\ [][NextChain]_vars

\* the levels of pointer blocks below a field of the inode
LevelOf(field) ==
    IF field = SinglyOff THEN 1 ELSE IF field = DoublyOff THEN 2
    ELSE IF field = TriplyOff THEN 3 ELSE 0

\* the indirection blocks of inode n : the blocks its block map references
\* that hold pointers
IndirectionBlocks(disk, n) ==
    {r[3] : r \in {x \in RefsOfInode(disk, n) : Len(x[2]) <= LevelOf(x[2][1])}}

\* C32 : an indirection block that inode_free_block frees holds no non-zero
\* pointer slot when the call is over : the call never frees an indirection
\* block that still references a block.
C32_FreeEmptyOnly ==
    (last.op = "inode_free_block") =>
        \A k \in 1..Len(fs.freed) :
            fs.freed[k] \in IndirectionBlocks(pre.disk, last.args[1])
                => SlotsOf(fs.disk, fs.freed[k]) = {}

(***************************************************************************)
(* The three traversals of the block map agree                             *)
(***************************************************************************)
\* C33 : when inode_data_may_alloc has returned an address for a block
\* offset, a second call with the same offset returns the same address and
\* allocates no block, and afterwards inode_data (through the cache, which
\* its caller invalidates first) and inode_data_xxx return that address too.
C33_AllocIdempotent ==
    (/\ last.op = "inode_data_may_alloc"
     /\ prev.op = "inode_data_may_alloc"
     /\ prev.args = last.args
     /\ prev.tag = "ok")
    => /\ last.tag = "ok"
       /\ last.val = prev.val
       /\ fs.allocd = <<>>
       /\ fs.disk = pre.disk
       /\ With([ino \in {RawInode(fs.disk, last.args[1])} |->
              /\ inode_data_blk([fs EXCEPT !.cache = Cache_invalidate(@)], ino,
                                last.args[2], 0).tag = "ok"
              /\ inode_data_blk([fs EXCEPT !.cache = Cache_invalidate(@)], ino,
                                last.args[2], 0).val = last.val
              /\ inode_data_xxx(fs, ino, last.args[2] * BlockSize).tag = "ok"
              /\ inode_data_xxx(fs, ino, last.args[2] * BlockSize).val = last.val])

(***************************************************************************)
(* The pointer cache, on a file held by indirection blocks                 *)
(***************************************************************************)
\* byte offset of the k-th block of the range of a chain
ChainOffset(level, k) == (ChainStart(level) + k) * BlockSize

\* the read that filled the cache, when there was one
FirstRead(st, level, k) ==
    With([r \in {read(st, InoF, ChainOffset(level, k), 3)} |->
        IF r.tag = "ok" THEN r.st ELSE st])

\* the engine on a volume with a chain, fresh or after a first read
InitCache ==
    /\ fs \in UNION {{FirstRead(v, level, k) : v \in Laid(Built(ChainVolume(level, slots)))} :
                         level \in 1..3, slots \in {{0}}, k \in {0, 2}}
    /\ pre = fs
    /\ last = NoCall
    /\ prev = NoCall
    /\ nops = 0
    /\ file = NoFiles
    /\ lock = FALSE

ReadChain ==
    \E level \in 1..3, k \in {0, 1} :
        Step("read", <<InoF, ChainOffset(level, k), 3>>,
             read(Begin, InoF, ChainOffset(level, k), 3))

WriteChain ==
    \E level \in 1..3, k \in {0, 1} :
        Step("write", <<InoF, ChainOffset(level, k), SmallBuf>>,
             write(Begin, InoF, ChainOffset(level, k), SmallBuf))

\* unlink of the files of /a
UnlinkFile ==
    \E name \in {NameF, NameG}, free_inode_data \in BOOLEAN :
        Step("unlink", <<InoA, name, free_inode_data>>,
             unlink(Begin, InoA, name, free_inode_data))

NextCache == ReadChain \/ WriteChain \/ Truncate \/ UnlinkFile

SpecCache == InitCache /\ [][NextCache]_vars

\* the entry of a level of the cache holds what the device holds at its address
Coherent(st, l) ==
    st.cache[l].idx # NoIdx
        => Slice(st.cache[l].data, 0, InRange(st, st.cache[l].idx, st.block_size))
               = read_buffer(st, st.cache[l].idx, st.block_size)

\* C34 : a read changes nothing on the device, and when it goes past the
\* end-of-file test, so that it traverses the block map, every pointer block
\* the cache holds as valid when the read is over (the blocks get_pointer
\* served pointers from during the read) is equal to that block on the
\* device : no pointer followed by the read was stale.
C34_Coherent ==
    (last.op = "read") =>
        /\ fs.disk = pre.disk
        /\ (Usable(pre, last.args[1]) /\ last.args[2] < SizeOf(pre, last.args[1]))
               => \A l \in Levels : Coherent(fs, l)

\* a read went through a pointer block of which the cache held an older
\* copy, left by the read before the write that changed the block
C34_Witness ==
    /\ last.op = "read"
    /\ last.tag = "ok"
    /\ prev.op = "write"
    /\ prev.tag = "ok"
    /\ \E l \in Levels :
           /\ fs.cache[l].idx # NoIdx
           /\ fs.cache[l].idx = pre.cache[l].idx
           /\ ~Coherent(pre, l)

(***************************************************************************)
(* The zeroing of a block by alloc_block, on volumes of both block sizes.  *)
(* The second volume has blocks of 2048 bytes (log2_block_size = 1) : four *)
(* groups of 8 blocks and 16 inodes, the descriptor table in block 1, and  *)
(* in group g the block bitmap, the inode bitmap and the one block of the  *)
(* inode table in blocks 2, 3, 4 (g = 0) or 8g, 8g + 1, 8g + 2; block 5    *)
(* holds the root directory.  One regular file is drawn at the start : its *)
(* inode, and the first data block of its group for its five bytes.        *)
(***************************************************************************)
BlockSize2K == 2 * BlockSize
BlocksPerGrp2K == BlocksPerGrp \div 2

GrpBlockBitmap2K(g) == IF g = 0 THEN 2 ELSE BlocksPerGrp2K * g
GrpInodeBitmap2K(g) == GrpBlockBitmap2K(g) + 1
GrpInodeTable2K(g) == GrpBlockBitmap2K(g) + 2
GrpFirstData2K(g) == IF g = 0 THEN 6 ELSE GrpBlockBitmap2K(g) + 3

InodeAddr2K(n) ==
    BlockSize2K * GrpInodeTable2K((n - 1) \div InodesPerGrp) + ((n - 1) % InodesPerGrp) * SizeInode

\* the superblock of that volume : as the one of Image but for the geometry
SuperBlock2K(fb, fi) ==
    SetU32(SetU32(SetU32(SetU32(SetU32(SetU32(SuperBlockImage(fb, fi),
        4, NbrBlockGrp * BlocksPerGrp2K), 20, 0), 24, 1), 28, 1), 32, BlocksPerGrp2K), 36, BlocksPerGrp2K)

\* the descriptor of group g, and the bitmaps of a group : a group below
\* full has every block taken; the others have their first blocks taken (the
\* blocks of the headers, the root directory or the data block of the file)
Desc2K(g, free_blocks, free_inodes, dirs) ==
    SetU16(SetU16(SetU16(SetU32(SetU32(SetU32(Empty, 0, GrpBlockBitmap2K(g)),
                                       4, GrpInodeBitmap2K(g)), 8, GrpInodeTable2K(g)),
                         12, free_blocks), 14, free_inodes), 16, dirs)

TakenBlocks2K(g, full, file_grp) ==
    IF g < full THEN BlocksPerGrp2K
    ELSE (IF g = 0 THEN 6 ELSE 3) + (IF g = file_grp THEN 1 ELSE 0)

Group2K(g, full, ino) ==
    With([file_grp \in {(ino - 1) \div InodesPerGrp} |->
        With([taken \in {TakenBlocks2K(g, full, file_grp)} |->
        Shift(Desc2K(g, BlocksPerGrp2K - taken,
                     IF g = 0 THEN 0 ELSE InodesPerGrp - (IF g = file_grp THEN 1 ELSE 0),
                     IF g = 0 THEN 1 ELSE 0),
              BlockSize2K + g * DescSize)
        @@ Shift(LE(IF taken = BlocksPerGrp2K THEN 255 ELSE Pow2(taken) - 1, 1),
                 BlockSize2K * GrpBlockBitmap2K(g))
        @@ (IF g = 0 THEN Shift(OfSeq(<<255, 255>>), BlockSize2K * GrpInodeBitmap2K(g))
            ELSE IF g = file_grp
            THEN Shift(LE(Pow2(((ino - 1) % InodesPerGrp) % 8), 1),
                       BlockSize2K * GrpInodeBitmap2K(g) + (((ino - 1) % InodesPerGrp) \div 8))
            ELSE Empty)])])

FileInode2K(ino) ==
    SetU32(SetU16(update_size(Inode_new(FileMode), 5, BlockSize2K), 26, 1),
           DirectOff(0), GrpFirstData2K((ino - 1) \div InodesPerGrp))

RootInode2K ==
    SetU32(SetU16(update_size(Inode_new(FT_Directory + DirPerm), BlockSize2K, BlockSize2K), 26, 2),
           DirectOff(0), 5)

\* the free blocks of the volume with the groups below full taken
RECURSIVE FreeBlocks2K(_, _, _)
FreeBlocks2K(g, full, ino) ==
    IF g >= NbrBlockGrp THEN 0
    ELSE BlocksPerGrp2K - TakenBlocks2K(g, full, (ino - 1) \div InodesPerGrp)
         + FreeBlocks2K(g + 1, full, ino)

Image2K(full, ino) ==
    Shift(SuperBlock2K(FreeBlocks2K(0, full, ino), (NbrBlockGrp - 1) * InodesPerGrp - 1), SuperblockAddr)
    @@ Group2K(0, full, ino) @@ Group2K(1, full, ino) @@ Group2K(2, full, ino) @@ Group2K(3, full, ino)
    @@ Shift(RootInode2K, InodeAddr2K(RootIno))
    @@ Shift(MkEntry(RootIno, 12, Dot, DT_Directory), BlockSize2K * 5)
    @@ Shift(MkEntry(RootIno, BlockSize2K - 12, DotDot, DT_Directory), BlockSize2K * 5 + 12)
    @@ Shift(FileInode2K(ino), InodeAddr2K(ino))
    @@ Shift(OfSeq(<<1, 2, 3, 4, 5>>), BlockSize2K * GrpFirstData2K((ino - 1) \div InodesPerGrp))

\* the inodes drawn for the file : in the first and in the second half of
\* the table block of a group
FileInodes2K == {20, 28, 36, 44, 60}

\* the device holds the blocks of the four groups
DiskSize2K == NbrBlockGrp * BlocksPerGrp2K * BlockSize2K

InitZero ==
    /\ fs \in UNION ({Built(Ext2Filesystem_new(Image2K(full, ino), DiskSize2K).val) :
                          full \in 0..(NbrBlockGrp - 1), ino \in FileInodes2K}
                     \cup {Built(VolumeFull(kb, 1, FALSE)) : kb \in 1..NbrBlockGrp})
    /\ pre = fs
    /\ last = NoCall
    /\ prev = NoCall
    /\ nops = 0
    /\ file = NoFiles
    /\ lock = FALSE

NextZero == AllocBlock

SpecZero == InitZero /\ [][NextZero]_vars

\* C36 : the block alloc_block returns reads as zero over its whole
\* block_size, whatever it held before.
C36_Zeroed ==
    (last.op = "alloc_block" /\ last.tag = "ok") =>
        \A o \in 0..(fs.block_size - 1) : Get(fs.disk, fs.block_size * last.val + o) = 0

(***************************************************************************)
(* The walk of EntryIter over a directory                                  *)
(***************************************************************************)
CreateEntry ==
    \E p \in Parents :
        Step("create", <<NameN, p>>, create(Begin, NameN, p, Timestamp, FileMode, Owner, Group))

MakeDir ==
    \E p \in Parents :
        Step("create_dir", <<p, NameM>>, create_dir(Begin, p, NameM, Timestamp, DirPerm, Owner, Group))

RemoveDir ==
    \E name \in {NameD, NameM} :
        Step("rmdir", <<InoA, name>>, rmdir(Begin, InoA, name))

MoveEntry ==
    \E name \in {NameG, NameU}, np \in Parents :
        Step("rename", <<InoA, name, np, NameD>>, rename(Begin, InoA, name, np, NameD))

NextIter == CreateEntry \/ MakeDir \/ UnlinkFile \/ RemoveDir \/ MoveEntry

SpecIter == InitNames /\ [][NextIter]_vars

\* the offsets of the records of a chain that hold a non-zero inode
Yielded(st, inode, recs) ==
    SelectSeq([k \in 1..Len(recs) |-> recs[k].off],
              LAMBDA o : DE_get_inode(find_entry(st, inode, o).e) # 0)

ItemOffsets(items) == [i \in 1..Len(items) |-> items[i].off]

\* the iteration of directory n, as iter_entries starts it, against the
\* records of the chain
IterOk(st, n) ==
    With([inode \in {get_inode(st, n).val.inode} |->
    With([it \in {iter_entries(st, n).val} |->
    With([ch \in {RawChain(st, inode, 0, <<>>)} |->
        /\ it.end = "none"
        /\ ch.end = get_size(inode)
        /\ \A k \in 1..Len(ch.recs) :
               /\ ch.recs[k].len > 0
               /\ ch.recs[k].off = IF k = 1 THEN 0 ELSE ch.recs[k - 1].off + ch.recs[k - 1].len
        /\ ItemOffsets(it.items) = Yielded(st, inode, ch.recs)
        /\ \A i \in 1..(Len(it.items) - 1) : it.items[i].off < it.items[i + 1].off])])])

\* C37 : after create, create_dir, unlink, rmdir and rename the iteration of
\* every directory ends : it starts at offset 0, advances by each record's
\* rec_len, yields the records of non-zero inode once each in increasing
\* offset order and stops when the offset reaches the size of the directory.
C37_IterTerminates ==
    Returned =>
        \A n \in AllInodes : iter_entries(fs, n).tag = "ok" => IterOk(fs, n)

(***************************************************************************)
(* create, create_dir and symlink with names DirectoryEntry::new refuses   *)
(***************************************************************************)
\* the empty name, a name of 256 bytes, a name with a '/', and a good name
EntryNames == {NameOf(0, 0), NameOf(FILENAME_MAX + 1, 0), NameOf(2, 1), NameN}

CreateNamed ==
    \E p \in Parents, name \in EntryNames :
        Step("create", <<name, p>>, create(Begin, name, p, Timestamp, FileMode, Owner, Group))

CreateDirNamed ==
    \E p \in Parents, name \in EntryNames :
        Step("create_dir", <<p, name>>, create_dir(Begin, p, name, Timestamp, DirPerm, Owner, Group))

SymlinkNamed ==
    \E p \in Parents, len \in TargetLens, name \in EntryNames :
        Step("symlink", <<p, len, name>>, symlink(Begin, p, TargetOf(len), name, Timestamp))

NextRefused == CreateNamed \/ CreateDirNamed \/ SymlinkNamed

SpecRefused == InitNames /\ [][NextRefused]_vars

NameErrors == {"NameTooLong", "StringEmpty", "IllegalCharacter"}

\* C38 : a create, create_dir or symlink that fails on the file name leaves
\* the volume as it was : the inode bitmaps, the free-inode counts and the
\* inode table are unchanged.
C38_RefusedName ==
    (/\ last.op \in {"create", "create_dir", "symlink"}
     /\ last.tag = "err"
     /\ last.val \in NameErrors)
    => /\ \A n \in AllInodes :
              /\ InodeBitSet(fs.disk, n) = InodeBitSet(pre.disk, n)
              /\ RawInode(fs.disk, n) = RawInode(pre.disk, n)
       /\ \A g \in 0..(NbrBlockGrp - 1) :
              nbr_free_inodes(RawDesc(fs.disk, g)) = nbr_free_inodes(RawDesc(pre.disk, g))
       /\ fs.fi = pre.fi

(***************************************************************************)
(* rename with new names set_filename refuses and with new parents         *)
(* push_entry refuses                                                      *)
(***************************************************************************)
RenameTo ==
    \E p \in Parents, name \in {NameF, NameG, NameD, NameN},
       np \in Parents \cup {InoF, FirstFreeIno}, new_name \in {NameOf(0, 0), NameOf(2, 1), NameN} :
        Step("rename", <<p, name, np, new_name>>, rename(Begin, p, name, np, new_name))

NextRename == RenameTo \/ CreateDir

SpecRename == InitNames /\ [][NextRename]_vars

\* C39 : a rename that returns an error leaves the old entry in place :
\* the old name still resolves in the old parent to the same inode.
C39_RenameFailure ==
    (/\ last.op = "rename"
     /\ last.tag = "err"
     /\ find_entry_in_inode(pre, last.args[1], last.args[2]).tag = "ok")
    => /\ find_entry_in_inode(fs, last.args[1], last.args[2]).tag = "ok"
       /\ DE_get_inode(find_entry_in_inode(fs, last.args[1], last.args[2]).val.e)
              = DE_get_inode(find_entry_in_inode(pre, last.args[1], last.args[2]).val.e)

(***************************************************************************)
(* write and truncate on one inode, seen from the other inodes             *)
(***************************************************************************)
\* the size bytes of the device at addr agree, outside the bytes lo .. hi
SameOutside(disk0, disk, addr, size, lo, hi) ==
    \A o \in (0..(size - 1)) \ (lo..hi) : Get(disk, addr + o) = Get(disk0, addr + o)

\* the size and the 15 pointer slots of the record of inode n
SizeAndPointers(disk, n) ==
    <<get_size(RawInode(disk, n)), Slice(RawInode(disk, n), DirectOff(0), 15 * PtrSize)>>

HoldsBlocks(disk, n) ==
    is_a_regular_file(RawInode(disk, n)) \/ is_a_directory(RawInode(disk, n))

\* C40 : a write or a truncate on inode i leaves the size, the block
\* pointers and the data of every other allocated inode as they were, and
\* changes no field of the superblock and of the group descriptors other
\* than the free counts.
C40_OtherFilesUntouched ==
    (Returned /\ last.op \in {"write", "truncate"}) =>
        /\ \A j \in AllInodes \ {last.args[1]} :
               InodeBitSet(pre.disk, j) =>
                   /\ SizeAndPointers(fs.disk, j) = SizeAndPointers(pre.disk, j)
                   /\ HoldsBlocks(pre.disk, j) => BlocksOf(pre, fs, j) = BlocksOf(pre, pre, j)
        /\ SameOutside(pre.disk, fs.disk, SuperblockAddr, SuperBlockStructSize, 12, 19)
        /\ \A g \in 0..(NbrBlockGrp - 1) :
               SameOutside(pre.disk, fs.disk, DescAddr(g), DescSize, 12, 15)

====
